---------------------------- MODULE Spec2Model ----------------------------
(***************************************************************************)
(* Model of the finding-normalisation pipeline of the accessibility suite: *)
(* the rule-engine report (utils/reporter.ts), the accessibility-tree      *)
(* adapter (engines/a11y-tree-engine), the scored-audit adapter            *)
(* (engines/lighthouse-engine.ts) and the visual-capture adapter           *)
(* (utils/wave-capture-parser.ts).                                         *)
(*                                                                         *)
(* Every adapter is a pure function of one scanner's native output.  Each  *)
(* has its own specification (SpecAxe, SpecTree, SpecLh, SpecWaveJira,     *)
(* SpecWaveParse): its Init draws the scanner output from bounded sets and *)
(* its actions apply the adapter as the calling script does.  pc names the *)
(* step the running script has reached.                                    *)
(*                                                                         *)
(* The scripts around the adapters have specifications of their own: the   *)
(* WCAG reference lookup (SpecWcagRef), the pipeline gate (SpecGate), the  *)
(* batch runner scripts/run-a11y.ts (SpecBatch) and the finding cards of   *)
(* the two report builders (SpecCards).                                    *)
(*                                                                         *)
(* The scans themselves are modelled call by call: the strict audit report *)
(* (SpecStrict), runAxeScan with its navigation and target-size check      *)
(* (SpecScan), the severity counts of the rule-engine report over every    *)
(* impact (SpecSeverity), the WAVE API client (SpecWaveApi) and the Chrome *)
(* lifecycle of the two Lighthouse runners (SpecChrome).                   *)
(***************************************************************************)
EXTENDS Integers, Sequences, FiniteSets, TLC

VARIABLES
  pc,              \* step of the running script
  axeData,         \* AxeResults returned by runAxeScan
  axeReports,      \* the "-all" and "-actionable" reports of run-a11y.ts
  axNodes,         \* flat AXNode list of Accessibility.getFullAXTree
  treeResult,      \* A11yTreeResult of runA11yTreeScan (with the walk's trace)
  lhRun,           \* Lighthouse runner result: lhr and artifacts
  lhResult,        \* LighthouseResult of normalizeLhrToResult
  regexLastIndex,  \* WAVE_ICON_ALT_REGEX.lastIndex (module-level /g regex)
  parseCalls,      \* parseWaveCaptureHtml calls made by the process so far
  captureHtml,     \* the capture markup last read by parseWaveCaptureHtml
  captureFindings, \* WaveCaptureFinding[] last returned
  jiraOptions,     \* options.actionableOnly of the last conversion
  jiraIssues,      \* WaveJiraIssue[] last returned by findingsToJiraIssues
  refQuery,        \* arguments of the last getWcagRefForFinding call
  refResult,       \* what that call returned
  gateRun,         \* the gate entry point started and how its scan ends
  gateExit,        \* exit status of the gate process
  batchArgs,       \* run-a11y.ts: URLs given, --engine, and the backend's capability
  urls,            \* the list collectUrls returned
  urlIndex,        \* URLs of the list the loop has finished with
  table,           \* Row[] of main
  scanLog,         \* calls the loop made to engines, reporter and browser, in order
  batchExit,       \* how the batch process ended
  cardInput,       \* the finding a report is generated from
  cards,           \* the issue card the report holds for it
  strictLhr,       \* the lhr run-wcag-audit.ts got from the auditor
  strictReport,    \* the WcagAuditReport built from it
  axeScanInput,    \* the page runAxeScan is given
  axeScanResult,   \* what runAxeScan returned, or that it threw
  waveCall,        \* one call of runWaveScan: the key, the API answer
  waveOutcome,     \* the requests issued and how the call ended
  lhCall,          \* one call of a Lighthouse runner
  lhOutcome        \* its steps and what its caller received

vars == <<pc, axeData, axeReports, axNodes, treeResult, lhRun, lhResult,
          regexLastIndex, parseCalls, captureHtml, captureFindings,
          jiraOptions, jiraIssues, refQuery, refResult,
          gateRun, gateExit, batchArgs, urls, urlIndex, table, scanLog,
          batchExit, cardInput, cards,
          strictLhr, strictReport,
          axeScanInput, axeScanResult,
          waveCall, waveOutcome,
          lhCall, lhOutcome>>

axeVars  == <<axeData, axeReports>>
treeVars == <<axNodes, treeResult>>
lhVars   == <<lhRun, lhResult>>
waveVars == <<regexLastIndex, parseCalls, captureHtml, captureFindings,
             jiraOptions, jiraIssues>>
refVars  == <<refQuery, refResult>>
\* the variables of the specifications added after the four adapters
gateVars == <<gateRun, gateExit>>
batchVars == <<batchArgs, urls, urlIndex, table, scanLog, batchExit>>
cardVars == <<cardInput, cards>>
strictVars == <<strictLhr, strictReport>>
scanVars == <<axeScanInput, axeScanResult>>
waveApiVars == <<waveCall, waveOutcome>>
chromeVars == <<lhCall, lhOutcome>>
extVars  == <<refVars, gateVars, batchVars, cardVars, strictVars, scanVars,
             waveApiVars, chromeVars>>

----------------------------------------------------------------------------
(* Generic helpers                                                         *)

RECURSIVE SeqSum(_)
SeqSum(s) == IF s = <<>> THEN 0 ELSE Head(s) + SeqSum(Tail(s))

RECURSIVE Flatten(_)
Flatten(ss) ==
  IF ss = <<>> THEN <<>>
  ELSE IF Len(ss) = 1 THEN ss[1]
  ELSE LET half == Len(ss) \div 2
       IN  Flatten(SubSeq(ss, 1, half)) \o Flatten(SubSeq(ss, half + 1, Len(ss)))

Map(f(_), s) == [i \in 1..Len(s) |-> f(s[i])]

Filter(s, keep(_)) == SelectSeq(s, keep)

Range(s) == {s[i] : i \in 1..Len(s)}

Count(s, p(_)) == Cardinality({i \in 1..Len(s) : p(s[i])})

----------------------------------------------------------------------------
(* Rule engine: AxeResults and generateReport (utils/reporter.ts)          *)

MaxRuleNodes == 3

\* impact: 'minor' | 'moderate' | 'serious' | 'critical' | null
RuleCatalog ==
  { [id |-> "image-alt",      impact |-> "critical"],
    [id |-> "color-contrast", impact |-> "serious"],
    [id |-> "region",         impact |-> "null"] }

\* An AxeResult: a rule with the DOM nodes it affects (possibly none).
AxeResultSet ==
  LET Selectors == <<"#a", "#b", "#c", "#d", "#e">>
  IN  { [id |-> r.id, impact |-> r.impact, nodes |-> SubSeq(Selectors, 1, n)] :
          r \in RuleCatalog, n \in 0..MaxRuleNodes }

\* A result list names a rule at most once.
DistinctRules(list) ==
  \A i, j \in 1..Len(list) : i # j => list[i].id # list[j].id

\* axe is one of the AxeResults drawn
IsAxeResults(axe) ==
  \E n \in 0..Cardinality(RuleCatalog) :
    \E violations \in [1..n -> AxeResultSet] :
      \E incomplete \in {<<>>} \cup {<<e>> : e \in AxeResultSet} :
        /\ DistinctRules(violations)
        /\ axe = [violations |-> violations, incomplete |-> incomplete]

NoReport == [generated |-> FALSE]

SeverityKeys == {"critical", "serious", "moderate", "minor"}

\* Mutant of SeverityBucket: the impact is the bucket, whatever it reads.
SeverityBucketAsGiven(v) == v.impact

\* (v.impact ?? 'moderate').toLowerCase(), then the bucket it is counted in
SeverityBucket(v) ==
  LET imp == IF v.impact = "null" THEN "moderate" ELSE v.impact
  IN  IF imp \in SeverityKeys THEN imp ELSE "moderate"

\* v.impact ?? ''
ImpactColumn(v) == IF v.impact = "null" THEN "" ELSE v.impact

\* Mutant of AxeItems: the view flag is ignored, incomplete entries always listed.
AxeItemsIgnoringView(axe, actionableOnly) ==
  Map(LAMBDA v : [result |-> v, actionable |-> TRUE], axe.violations)
  \o Map(LAMBDA i : [result |-> i, actionable |-> FALSE], axe.incomplete)

AxeItems(axe, actionableOnly) ==
  IF actionableOnly
  THEN Map(LAMBDA v : [result |-> v, actionable |-> TRUE], axe.violations)
  ELSE Map(LAMBDA v : [result |-> v, actionable |-> TRUE], axe.violations)
       \o Map(LAMBDA i : [result |-> i, actionable |-> FALSE], axe.incomplete)

\* Mutant of CsvRowsOf: one row per rule (grouped as in the HTML view), no fan-out.
CsvRowsGroupedByRule(item, actionableOnly) ==
  << [ engine     |-> "Axe-core",
       ruleId     |-> item.result.id,
       severity   |-> ImpactColumn(item.result),
       actionable |-> IF actionableOnly THEN "(no column)"
                      ELSE IF item.actionable THEN "Yes" ELSE "Informational",
       selector   |-> "(all nodes)" ] >>

\* items.flatMap(item => item.result.nodes.map(n => row))
CsvRowsOf(item, actionableOnly) ==
  Map(LAMBDA n :
        [ engine     |-> "Axe-core",
          ruleId     |-> item.result.id,
          severity   |-> ImpactColumn(item.result),
          actionable |-> IF actionableOnly THEN "(no column)"
                         ELSE IF item.actionable THEN "Yes" ELSE "Informational",
          selector   |-> n ],
      item.result.nodes)

IssueCard(item, idx) ==
  [ number     |-> idx,
    ruleId     |-> item.result.id,
    actionable |-> item.actionable,
    nodeCount  |-> Len(item.result.nodes),
    pill       |-> IF item.actionable THEN SeverityBucket(item.result)
                   ELSE "Informational" ]

GenerateReport(axe, actionableOnly) ==
  LET items == AxeItems(axe, actionableOnly)
      totalNodes == SeqSum(Map(LAMBDA i : Len(i.result.nodes), items))
      actionableCount ==
        SeqSum(Map(LAMBDA i : Len(i.result.nodes),
                   Filter(items, LAMBDA i : i.actionable)))
  IN  [ generated          |-> TRUE,
        actionableOnly     |-> actionableOnly,
        totalNodes         |-> totalNodes,
        actionableCount    |-> actionableCount,
        informationalCount |-> totalNodes - actionableCount,
        bySeverity         |->
          [k \in SeverityKeys |->
             SeqSum(Map(LAMBDA v : IF SeverityBucket(v) = k THEN Len(v.nodes) ELSE 0,
                        axe.violations))],
        csvRows            |->
          Flatten(Map(LAMBDA i : CsvRowsOf(i, actionableOnly), items)),
        issueCards         |->
          [idx \in 1..Len(items) |-> IssueCard(items[idx], idx)] ]

\* run-a11y.ts, the runAxe branch: the same results rendered twice
AxeReportStep ==
  /\ pc = "axe:scanned"
  /\ axeReports' = [ all        |-> GenerateReport(axeData, FALSE),
                     actionable |-> GenerateReport(axeData, TRUE) ]
  /\ pc' = "axe:reported"
  /\ UNCHANGED <<axeData, treeVars, lhVars, waveVars, extVars>>

----------------------------------------------------------------------------
(* Rule-engine report: properties                                          *)

ViolationNodeTotal == SeqSum(Map(LAMBDA v : Len(v.nodes), axeData.violations))

IncompleteNodeTotal == SeqSum(Map(LAMBDA v : Len(v.nodes), axeData.incomplete))

RuleNodeTotal(list, id) ==
  SeqSum(Map(LAMBDA v : IF v.id = id THEN Len(v.nodes) ELSE 0, list))

RuleIds == {r.id : r \in RuleCatalog}

\* C1 (fan-out law): in both reports the actionable node count equals the sum
\* of the affected-node counts over the violations list, and so does the
\* number of flattened CSV rows of violation entries, rule by rule; a
\* violation entry with no nodes adds no row.
C1_FanOutLaw ==
  pc = "axe:reported" =>
    /\ axeReports.all.actionableCount = ViolationNodeTotal
    /\ axeReports.actionable.actionableCount = ViolationNodeTotal
    /\ Count(axeReports.all.csvRows, LAMBDA r : r.actionable = "Yes")
         = ViolationNodeTotal
    /\ Len(axeReports.actionable.csvRows) = ViolationNodeTotal
    /\ \A id \in RuleIds :
         /\ Count(axeReports.all.csvRows,
                  LAMBDA r : r.ruleId = id /\ r.actionable = "Yes")
              = RuleNodeTotal(axeData.violations, id)
         /\ Count(axeReports.actionable.csvRows, LAMBDA r : r.ruleId = id)
              = RuleNodeTotal(axeData.violations, id)

\* Scenario 1 next to a zero-node violation: image-alt (critical) with three
\* nodes gives three actionable critical rows, the empty entry gives none.
C1_Witness ==
  /\ pc = "axe:reported"
  /\ Len(axeData.violations) = 2
  /\ axeData.violations[1] =
       [id |-> "image-alt", impact |-> "critical", nodes |-> <<"#a", "#b", "#c">>]
  /\ axeData.violations[2].id = "region"
  /\ axeData.violations[2].nodes = <<>>
  /\ axeData.incomplete # <<>>
  /\ axeReports.all.actionableCount = 3
  /\ Count(axeReports.all.csvRows,
           LAMBDA r : r.actionable = "Yes" /\ r.severity = "critical") = 3

\* C2: every incomplete entry is an actionable=false finding of the "all
\* issues" report and is absent from the actionable-only report; every
\* violation entry is an actionable=true finding of both.
C2_IncompleteOnlyInInclusiveView ==
  pc = "axe:reported" =>
    LET nv   == Len(axeData.violations)
        ni   == Len(axeData.incomplete)
        all  == axeReports.all
        only == axeReports.actionable
    IN  /\ Len(all.issueCards) = nv + ni
        /\ \A i \in 1..nv :
             /\ all.issueCards[i].ruleId = axeData.violations[i].id
             /\ all.issueCards[i].actionable
        /\ \A j \in 1..ni :
             /\ all.issueCards[nv + j].ruleId = axeData.incomplete[j].id
             /\ ~all.issueCards[nv + j].actionable
        /\ Count(all.csvRows, LAMBDA r : r.actionable = "Informational")
             = IncompleteNodeTotal
        /\ all.informationalCount = IncompleteNodeTotal
        /\ Len(only.issueCards) = nv
        /\ \A i \in 1..nv :
             /\ only.issueCards[i].ruleId = axeData.violations[i].id
             /\ only.issueCards[i].actionable
        /\ Len(only.csvRows) = ViolationNodeTotal
        /\ only.informationalCount = 0

C2_Witness ==
  /\ pc = "axe:reported"
  /\ Len(axeData.violations) = 1
  /\ Len(axeData.incomplete) = 1
  /\ axeData.violations[1].id # axeData.incomplete[1].id
  /\ Len(axeData.incomplete[1].nodes) = 2
  /\ Len(axeReports.all.issueCards) = 2
  /\ ~axeReports.all.issueCards[2].actionable
  /\ Len(axeReports.actionable.issueCards) = 1

\* Results for the severity counts: up to two violation entries of every
\* impact the engine gives (the four levels and null) and of one it does
\* not, each with 0..MaxRuleNodes nodes, with or without an incomplete entry
IsAxeSeverityResults(axe) ==
  LET Selectors == <<"#a", "#b", "#c", "#d", "#e">>
      Impacts   == {"critical", "serious", "moderate", "minor", "null", "blocker"}
      Ids       == <<"image-alt", "color-contrast">>
  IN  \E n \in 0..2 : \E impacts \in [1..n -> Impacts] :
      \E nodes \in [1..n -> 0..MaxRuleNodes] :
      \E incomplete \in { <<>>, << [id |-> "region", impact |-> "serious",
                                    nodes |-> SubSeq(Selectors, 1, 2)] >> } :
        axe = [ violations |-> [k \in 1..n |->
                                  [id |-> Ids[k], impact |-> impacts[k],
                                   nodes |-> SubSeq(Selectors, 1, nodes[k])]],
                incomplete |-> incomplete ]

\* Nodes of the violation entries whose impact reads as the given level;
\* null and any other word read as moderate
NodesOfLevel(level) ==
  SeqSum(Map(LAMBDA v :
               IF \/ v.impact = level
                  \/ level = "moderate" /\ v.impact \notin {"critical", "serious", "minor"}
               THEN Len(v.nodes) ELSE 0,
             axeData.violations))

----------------------------------------------------------------------------
(* Accessibility-tree adapter: buildTreeFromAXNodes, walk,                  *)
(* addMediaReviewIssues, runA11yTreeScan (engines/a11y-tree-engine)         *)

MaxAXNodes == 3

\* Text is a sequence of one-character strings, so that trimming and
\* lower-casing are computed and not assumed.
\* Role and name texts of the AX nodes drawn, one character per element
AxText ==
  [ Link        |-> <<"l", "i", "n", "k">>,
    Button      |-> <<"b", "u", "t", "t", "o", "n">>,
    Textbox     |-> <<"t", "e", "x", "t", "b", "o", "x">>,
    Searchbox   |-> <<"s", "e", "a", "r", "c", "h", "b", "o", "x">>,
    Combobox    |-> <<"c", "o", "m", "b", "o", "b", "o", "x">>,
    Image       |-> <<"i", "m", "a", "g", "e">>,
    Img         |-> <<"i", "m", "g">>,
    Video       |-> <<"v", "i", "d", "e", "o">>,
    Audio       |-> <<"a", "u", "d", "i", "o">>,
    Iframe      |-> <<"i", "f", "r", "a", "m", "e">>,
    Embed       |-> <<"e", "m", "b", "e", "d">>,
    None        |-> <<"n", "o", "n", "e">>,
    RootWebArea |-> <<"R", "o", "o", "t", "W", "e", "b", "A", "r", "e", "a">>,
    VideoCamel  |-> <<"V", "i", "d", "e", "o">>,
    Ok          |-> <<"O", "k">>,
    PaddedOk    |-> <<" ", "O", "k", " ">>,
    Blank       |-> <<" ", " ">>,
    Empty       |-> <<>> ]

\* The character classes the string methods and regular expressions of the
\* sources tell apart, with the case mappings of toLowerCase / toUpperCase.
CharClass ==
  LET upper == <<"A", "B", "C", "D", "E", "F", "G", "H", "I", "J", "K", "L", "M",
                 "N", "O", "P", "Q", "R", "S", "T", "U", "V", "W", "X", "Y", "Z">>
      lower == <<"a", "b", "c", "d", "e", "f", "g", "h", "i", "j", "k", "l", "m",
                 "n", "o", "p", "q", "r", "s", "t", "u", "v", "w", "x", "y", "z">>
      U == {upper[i] : i \in 1..26}
      L == {lower[i] : i \in 1..26}
      D == {"0", "1", "2", "3", "4", "5", "6", "7", "8", "9"}
  IN  [ WhiteSpace   |-> {" ", "\t", "\n"},
        Upper        |-> U,
        Lower        |-> L,
        Digits       |-> D,
        AlphaNumeric |-> U \cup L \cup D,
        ToLower      |-> [c \in U |-> lower[CHOOSE i \in 1..26 : upper[i] = c]],
        ToUpper      |-> [c \in L |-> upper[CHOOSE i \in 1..26 : lower[i] = c]] ]

\* String.prototype.trim
RECURSIVE TrimLeft(_)
TrimLeft(t) ==
  IF t # <<>> /\ Head(t) \in CharClass.WhiteSpace THEN TrimLeft(Tail(t)) ELSE t

RECURSIVE TrimRight(_)
TrimRight(t) ==
  IF t # <<>> /\ t[Len(t)] \in CharClass.WhiteSpace
  THEN TrimRight(SubSeq(t, 1, Len(t) - 1)) ELSE t

Trim(t) == TrimRight(TrimLeft(t))

\* String.prototype.toLowerCase
ToLowerCase(t) ==
  [i \in 1..Len(t) |-> IF t[i] \in CharClass.Upper THEN CharClass.ToLower[t[i]] ELSE t[i]]

\* String.prototype.toUpperCase
ToUpperCase(t) ==
  [i \in 1..Len(t) |-> IF t[i] \in CharClass.Lower THEN CharClass.ToUpper[t[i]] ELSE t[i]]

\* String.prototype.includes
Includes(t, sub) ==
  \/ sub = <<>>
  \/ \E i \in 1..(Len(t) - Len(sub) + 1) :
       t[i] = sub[1] /\ SubSeq(t, i, i + Len(sub) - 1) = sub

\* An AXValue: absent, or present with a value
NoAXValue == [has |-> FALSE, value |-> <<>>]
AXVal(t)  == [has |-> TRUE, value |-> t]

\* string | undefined
Undefined  == [defined |-> FALSE, text |-> <<>>]
Defined(t) == [defined |-> TRUE, text |-> t]

AxValueToString(v) ==
  IF ~v.has THEN Undefined
  ELSE IF Trim(v.value) = <<>> THEN Undefined ELSE Defined(Trim(v.value))

\* The (ignored, role, name) combinations drawn for a node
AXNodeKinds ==
  { [ignored |-> TRUE,  role |-> AXVal(AxText.None),        name |-> NoAXValue],
    [ignored |-> TRUE,  role |-> AXVal(AxText.Link),        name |-> NoAXValue],
    [ignored |-> FALSE, role |-> AXVal(AxText.RootWebArea), name |-> AXVal(AxText.Ok)],
    [ignored |-> FALSE, role |-> AXVal(AxText.Button),      name |-> AXVal(AxText.PaddedOk)],
    [ignored |-> FALSE, role |-> AXVal(AxText.Link),        name |-> NoAXValue],
    [ignored |-> FALSE, role |-> AXVal(AxText.Textbox),     name |-> AXVal(AxText.Blank)],
    [ignored |-> FALSE, role |-> AXVal(AxText.Combobox),    name |-> NoAXValue],
    [ignored |-> FALSE, role |-> AXVal(AxText.Image),       name |-> AXVal(AxText.Ok)],
    [ignored |-> FALSE, role |-> AXVal(AxText.VideoCamel),  name |-> AXVal(AxText.Empty)],
    [ignored |-> FALSE, role |-> AXVal(AxText.Button),      name |-> AXVal(AxText.Empty)],
    [ignored |-> FALSE, role |-> AXVal(AxText.Link),        name |-> AXVal(AxText.Ok)],
    [ignored |-> FALSE, role |-> NoAXValue,             name |-> NoAXValue] }

\* The children of node i under parent function par, in list order
RECURSIVE ChildIdsFrom(_, _, _, _)
ChildIdsFrom(par, i, j, n) ==
  IF j > n THEN <<>>
  ELSE (IF par[j] = i THEN <<j>> ELSE <<>>) \o ChildIdsFrom(par, i, j + 1, n)

\* Accessibility.getFullAXTree: one rooted tree, the root first and every
\* node after its parent; nodeId i is the i-th node; parentId 0 is "absent".
AXTree(n, par, kind) ==
  [i \in 1..n |->
     [ nodeId   |-> i,
       ignored  |-> kind[i].ignored,
       role     |-> kind[i].role,
       name     |-> kind[i].name,
       parentId |-> par[i],
       childIds |-> ChildIdsFrom(par, i, i + 1, n) ]]

ParentFunctions(n) ==
  {par \in [1..n -> 0..n] : \A i \in 1..n : IF i = 1 THEN par[i] = 0 ELSE par[i] \in 1..(i - 1)}

\* nodes is one of the flat lists drawn: the empty list or such a tree
IsAXNodeList(nodes) ==
  \E n \in 0..MaxAXNodes :
    \E par \in ParentFunctions(n) :
      \E kind \in [1..n -> AXNodeKinds] :
        nodes = AXTree(n, par, kind)

\* byId.has(id) / byId.get(id): the last node of the list with that id
HasId(nodes, id) == \E i \in 1..Len(nodes) : nodes[i].nodeId = id

ById(nodes, id) ==
  LET last == CHOOSE i \in 1..Len(nodes) :
                /\ nodes[i].nodeId = id
                /\ \A j \in (i + 1)..Len(nodes) : nodes[j].nodeId # id
  IN  nodes[last]

\* Mutant of InTreeNodes: ignored nodes get a snapshot node too.
InTreeNodesIncludingIgnored(nodes, id) == HasId(nodes, id)

\* treeNodes.has(id): a snapshot node exists for every non-ignored node
InTreeNodes(nodes, id) ==
  \E i \in 1..Len(nodes) : nodes[i].nodeId = id /\ ~nodes[i].ignored

\* The snapshot node built for node id (without its children)
SnapshotOf(nodes, id) ==
  LET n == ById(nodes, id)
  IN  [ role        |-> AxValueToString(n.role),
        name        |-> AxValueToString(n.name),
        description |-> Undefined ]

\* Mutant of CollectVisibleChildren: a child without a snapshot node is
\* skipped together with its subtree (the adapter's earlier behaviour).
RECURSIVE CollectDirectChildren(_, _)
CollectDirectChildren(nodes, childIds) ==
  IF childIds = <<>> THEN <<>>
  ELSE (IF InTreeNodes(nodes, Head(childIds)) THEN <<Head(childIds)>> ELSE <<>>)
       \o CollectDirectChildren(nodes, Tail(childIds))

RECURSIVE CollectVisibleChildren(_, _)
CollectVisibleChildren(nodes, childIds) ==
  IF childIds = <<>> THEN <<>>
  ELSE LET cid == Head(childIds)
           here ==
             IF InTreeNodes(nodes, cid) THEN <<cid>>
             ELSE IF HasId(nodes, cid) /\ ById(nodes, cid).childIds # <<>>
                  THEN CollectVisibleChildren(nodes, ById(nodes, cid).childIds)
                  ELSE <<>>
       IN  here \o CollectVisibleChildren(nodes, Tail(childIds))

\* snap.children of the snapshot node of id
SnapshotChildren(nodes, id) ==
  IF HasId(nodes, id) /\ ById(nodes, id).childIds # <<>>
  THEN CollectVisibleChildren(nodes, ById(nodes, id).childIds)
  ELSE <<>>

\* The node buildTreeFromAXNodes returns: a snapshot node ("node", by id),
\* the synthesized RootWebArea ("virtual", with its children) or null.
RootNode(id)        == [kind |-> "node", id |-> id, children |-> <<>>]
VirtualRoot(kids)   == [kind |-> "virtual", id |-> 0, children |-> kids]
NullRoot            == [kind |-> "null", id |-> 0, children |-> <<>>]

BuildTreeFromAXNodes(nodes) ==
  LET isRoot(i) == /\ ~nodes[i].ignored
                   /\ (nodes[i].parentId = 0 \/ ~HasId(nodes, nodes[i].parentId))
      roots     == {i \in 1..Len(nodes) : isRoot(i)}
      firstRoot == CHOOSE i \in roots : \A j \in roots : i <= j
      nonIgnored == {i \in 1..Len(nodes) : ~nodes[i].ignored}
      firstKept == CHOOSE i \in nonIgnored : \A j \in nonIgnored : i <= j
  IN  IF roots # {} /\ InTreeNodes(nodes, nodes[firstRoot].nodeId)
        THEN RootNode(nodes[firstRoot].nodeId)
      ELSE IF nodes # <<>> /\ InTreeNodes(nodes, nodes[1].nodeId)
        THEN RootNode(nodes[1].nodeId)
      ELSE IF nodes # <<>> /\ nodes[1].childIds # <<>>
        THEN VirtualRoot(CollectVisibleChildren(nodes, nodes[1].childIds))
      ELSE IF nonIgnored # {}
        THEN RootNode(nodes[firstKept].nodeId)
      ELSE NullRoot

\* walk: the snapshot nodes in the order they are entered (depth first,
\* a node before its children); 0 stands for the virtual root.
RECURSIVE WalkFrom(_, _)
WalkFrom(nodes, id) ==
  <<id>> \o Flatten([i \in 1..Len(SnapshotChildren(nodes, id)) |->
                       WalkFrom(nodes, SnapshotChildren(nodes, id)[i])])

WalkOrder(nodes, root) ==
  CASE root.kind = "null"    -> <<>>
    [] root.kind = "node"    -> WalkFrom(nodes, root.id)
    [] root.kind = "virtual" ->
         <<0>> \o Flatten([i \in 1..Len(root.children) |->
                             WalkFrom(nodes, root.children[i])])

\* The snapshot node entered at a step of the walk
SnapshotAt(nodes, id) ==
  IF id = 0
  THEN [role |-> Defined(AxText.RootWebArea), name |-> Undefined, description |-> Undefined]
  ELSE SnapshotOf(nodes, id)

\* (node.role ?? '').toLowerCase()
RoleOf(snap) == IF snap.role.defined THEN ToLowerCase(snap.role.text) ELSE <<>>

ROLES_LINK   == {AxText.Link}
ROLES_BUTTON == {AxText.Button}
ROLES_IMAGE  == {AxText.Image, AxText.Img}
ROLES_VIDEO  == {AxText.Video}
ROLES_AUDIO  == {AxText.Audio}

\* Mutant of InputRoles: combobox is not treated as a text-entry control.
InputRolesWithoutCombobox == {AxText.Textbox, AxText.Searchbox}

\* role === 'textbox' || role === 'searchbox' || role === 'combobox'
InputRoles == {AxText.Textbox, AxText.Searchbox, AxText.Combobox}

IsEmptyName(name) == ~name.defined \/ Trim(name.text) = <<>>

\* The issues walk pushes while it is at one snapshot node
NodeIssues(snap) ==
  LET role == RoleOf(snap)
  IN  (IF role \in ROLES_LINK /\ IsEmptyName(snap.name)
       THEN << [kind |-> "nameless-link", role |-> AxText.Link, actionable |-> TRUE] >>
       ELSE <<>>)
      \o
      (IF role \in ROLES_BUTTON /\ IsEmptyName(snap.name)
       THEN << [kind |-> "nameless-button", role |-> AxText.Button, actionable |-> TRUE] >>
       ELSE <<>>)
      \o
      (IF role \in InputRoles /\ IsEmptyName(snap.name)
       THEN << [kind |-> "nameless-input", role |-> role, actionable |-> TRUE] >>
       ELSE <<>>)

\* The inventory increments of walk at one snapshot node
CountNode(inv, snap) ==
  LET role == RoleOf(snap)
      inc(b) == IF b THEN 1 ELSE 0
  IN  [ links   |-> inv.links   + inc(role \in ROLES_LINK),
        buttons |-> inv.buttons + inc(role \in ROLES_BUTTON),
        images  |-> inv.images  + inc(role \in ROLES_IMAGE),
        videos  |-> inv.videos  + inc(role \in ROLES_VIDEO),
        audio   |-> inv.audio   + inc(role \in ROLES_AUDIO),
        iframes |-> inv.iframes + inc(role = AxText.Iframe \/ role = AxText.Embed) ]

RECURSIVE WalkInventory(_, _, _)
WalkInventory(nodes, order, inv) ==
  IF order = <<>> THEN inv
  ELSE WalkInventory(nodes, Tail(order), CountNode(inv, SnapshotAt(nodes, Head(order))))

WalkIssues(nodes, order) ==
  Flatten([i \in 1..Len(order) |-> NodeIssues(SnapshotAt(nodes, order[i]))])

AddMediaReviewIssues(inv) ==
  (IF inv.videos > 0
   THEN << [kind |-> "media-manual-review", role |-> AxText.Video, actionable |-> TRUE] >>
   ELSE <<>>)
  \o
  (IF inv.audio > 0
   THEN << [kind |-> "media-manual-review", role |-> AxText.Audio, actionable |-> TRUE] >>
   ELSE <<>>)
  \o
  (IF inv.iframes > 0
   THEN << [kind |-> "media-manual-review", role |-> AxText.Iframe, actionable |-> FALSE] >>
   ELSE <<>>)

\* runA11yTreeScan on a CDP-capable context; visited records the walk.
A11yTreeScan(nodes) ==
  LET snapshot  == BuildTreeFromAXNodes(nodes)
      order     == WalkOrder(nodes, snapshot)
      inventory == WalkInventory(nodes, order,
                     [links |-> 0, buttons |-> 0, images |-> 0,
                      videos |-> 0, audio |-> 0, iframes |-> 0])
  IN  [ scanned   |-> TRUE,
        root      |-> snapshot,
        visited   |-> order,
        pairs     |-> {<<SnapshotAt(nodes, order[i]).role, SnapshotAt(nodes, order[i]).name>> :
                        i \in 1..Len(order)},
        inventory |-> inventory,
        issues    |-> WalkIssues(nodes, order) \o AddMediaReviewIssues(inventory) ]

RunA11yTreeScan ==
  /\ pc = "tree:page"
  /\ treeResult' = A11yTreeScan(axNodes)
  /\ pc' = "tree:scanned"
  /\ UNCHANGED <<axNodes, axeVars, lhVars, waveVars, extVars>>

----------------------------------------------------------------------------
(* Accessibility-tree adapter: properties                                  *)

\* The role and the name as the backend reports them, read off the AXNode
RawRole(n) == IF n.role.has THEN ToLowerCase(Trim(n.role.value)) ELSE <<>>

RawNameBlank(n) ==
  ~n.name.has \/ \A i \in 1..Len(n.name.value) : n.name.value[i] \in CharClass.WhiteSpace

CountedRoles ==
  {AxText.Link, AxText.Button, AxText.Image, AxText.Img, AxText.Video, AxText.Audio, AxText.Iframe, AxText.Embed}

NamedControlRoles == {AxText.Link, AxText.Button, AxText.Textbox, AxText.Searchbox, AxText.Combobox}

InventoryTotal(inv) ==
  inv.links + inv.buttons + inv.images + inv.videos + inv.audio + inv.iframes

RECURSIVE ReplaceChild(_, _, _)
ReplaceChild(childIds, x, kids) ==
  IF childIds = <<>> THEN <<>>
  ELSE (IF Head(childIds) = x THEN kids ELSE <<Head(childIds)>>)
       \o ReplaceChild(Tail(childIds), x, kids)

SpliceOut(nodes, x) ==
  LET gone == ById(nodes, x)
      rest == SelectSeq(nodes, LAMBDA n : n.nodeId # x)
  IN  [i \in 1..Len(rest) |->
         [rest[i] EXCEPT
            !.parentId = IF rest[i].parentId = x THEN gone.parentId ELSE @,
            !.childIds = ReplaceChild(@, x, gone.childIds)]]

RECURSIVE IsBelow(_, _, _)
IsBelow(nodes, d, x) ==
  LET p == ById(nodes, d).parentId
  IN  p # 0 /\ (p = x \/ IsBelow(nodes, p, x))

VirtualRootPair == <<Defined(AxText.RootWebArea), Undefined>>

\* Splicing x out leaves one rooted tree: x has a parent, or is a root with
\* a single child.
SplicedIsTree(n) == n.parentId # 0 \/ Len(n.childIds) = 1

\* C4 as stated (reparenting law): for every ignored node with children the
\* set of (role, name) pairs visited is the same as for the input in which
\* the ignored node is spliced out.
C4_SplicedPairsIdentical ==
  pc = "tree:scanned" =>
    \A i \in 1..Len(axNodes) :
      (axNodes[i].ignored /\ axNodes[i].childIds # <<>> /\ SplicedIsTree(axNodes[i])) =>
        treeResult.pairs = A11yTreeScan(SpliceOut(axNodes, axNodes[i].nodeId)).pairs

\* C4 as amended: an ignored node with children is never entered by the walk
\* and none of its non-ignored descendants is dropped; when it has a parent
\* the set of (role, name) pairs visited is that of the input with the node
\* spliced out; when it is the root the walk enters a synthesized RootWebArea
\* in its place, so the set is that of the spliced input plus that one pair.
C4_ReparentingLaw ==
  pc = "tree:scanned" =>
    \A i \in 1..Len(axNodes) :
      (axNodes[i].ignored /\ axNodes[i].childIds # <<>>) =>
        /\ \A k \in 1..Len(treeResult.visited) :
             treeResult.visited[k] # axNodes[i].nodeId
        /\ \A j \in 1..Len(axNodes) :
             (~axNodes[j].ignored /\ IsBelow(axNodes, axNodes[j].nodeId, axNodes[i].nodeId))
               => \E k \in 1..Len(treeResult.visited) :
                    treeResult.visited[k] = axNodes[j].nodeId
        /\ axNodes[i].parentId # 0 =>
             treeResult.pairs = A11yTreeScan(SpliceOut(axNodes, axNodes[i].nodeId)).pairs
        /\ (axNodes[i].parentId = 0 /\ Len(axNodes[i].childIds) = 1) =>
             treeResult.pairs =
               A11yTreeScan(SpliceOut(axNodes, axNodes[i].nodeId)).pairs
                 \cup {VirtualRootPair}

\* An ignored wrapper between the root and a nameless link.
C4_Witness ==
  /\ pc = "tree:scanned"
  /\ Len(axNodes) = 3
  /\ ~axNodes[1].ignored
  /\ axNodes[2].ignored /\ axNodes[2].parentId = 1 /\ axNodes[2].childIds = <<3>>
  /\ ~axNodes[3].ignored /\ RawRole(axNodes[3]) = AxText.Link
  /\ treeResult.visited = <<1, 3>>
  /\ <<Defined(AxText.Link), Undefined>> \in treeResult.pairs
  /\ Cardinality(treeResult.pairs) = 2

NamelessIssues == SelectSeq(treeResult.issues, LAMBDA i : i.kind # "media-manual-review")

NamelessKindOf(role) ==
  IF role = AxText.Link THEN "nameless-link"
  ELSE IF role = AxText.Button THEN "nameless-button" ELSE "nameless-input"

\* C5: the walk emits exactly one actionable finding for each node it enters
\* whose role is link, button, textbox, searchbox or combobox and whose name
\* is absent, empty or blank, and no nameless finding for any other node.
C5_OneFindingPerNamelessControl ==
  pc = "tree:scanned" =>
    /\ \A r \in NamedControlRoles :
         Count(NamelessIssues, LAMBDA i : i.role = r)
           = Cardinality({k \in 1..Len(treeResult.visited) :
                            /\ treeResult.visited[k] # 0
                            /\ RawRole(ById(axNodes, treeResult.visited[k])) = r
                            /\ RawNameBlank(ById(axNodes, treeResult.visited[k]))})
    /\ \A k \in 1..Len(NamelessIssues) :
         /\ NamelessIssues[k].role \in NamedControlRoles
         /\ NamelessIssues[k].kind = NamelessKindOf(NamelessIssues[k].role)
         /\ NamelessIssues[k].actionable

\* Scenario 2: an ignored wrapper whose two children are a named button and
\* an unnamed link.
C5_Witness ==
  /\ pc = "tree:scanned"
  /\ Len(axNodes) = 3
  /\ axNodes[1].ignored /\ axNodes[1].childIds = <<2, 3>>
  /\ RawRole(axNodes[2]) = AxText.Button /\ ~axNodes[2].ignored /\ ~RawNameBlank(axNodes[2])
  /\ RawRole(axNodes[3]) = AxText.Link /\ ~axNodes[3].ignored /\ RawNameBlank(axNodes[3])
  /\ treeResult.inventory =
       [links |-> 1, buttons |-> 1, images |-> 0, videos |-> 0, audio |-> 0, iframes |-> 0]
  /\ Len(treeResult.issues) = 1
  /\ treeResult.issues[1].kind = "nameless-link"

----------------------------------------------------------------------------
(* Scored-audit adapter: buildTagMapFromArtifacts, normalizeLhrToResult,   *)
(* runLighthouseScan (engines/lighthouse-engine.ts)                        *)

MaxAuditItems == 1

\* Audit ids of lhr.audits; the last one is not an accessibility audit.
AuditIds == {"color-contrast", "html-has-lang", "first-contentful-paint"}

\* lhr.audits[id]: absent, or an audit with its score (number | null) and
\* its details.items; an element descriptor carries its selector itself or
\* on its node ("undefined": the field is absent).
AuditRecords ==
  LET AuditScores   == {"null", "0", "0.5", "1"}
      AuditItemPool ==
        << [selector |-> "#main a", nodeSelector |-> "undefined", snippet |-> "<a>"],
           [selector |-> "undefined", nodeSelector |-> "#nav", snippet |-> "<nav>"],
           [selector |-> "undefined", nodeSelector |-> "undefined", snippet |-> "undefined"] >>
  IN  {[present |-> FALSE, score |-> "null", items |-> <<>>]} \cup
      { [present |-> TRUE, score |-> sc, items |-> SubSeq(AuditItemPool, 1, n)] :
          sc \in AuditScores, n \in 0..MaxAuditItems }


\* Tag texts of the rule-engine artifacts drawn
LhText ==
  [ Wcag     |-> <<"w", "c", "a", "g">>,
    Wcag143  |-> <<"w", "c", "a", "g", "1", "4", "3">>,
    Wcag2aa  |-> <<"w", "c", "a", "g", "2", "a", "a">>,
    Wcag21aa |-> <<"W", "C", "A", "G", "2", "1", "a", "a">>,
    CatColor |-> <<"c", "a", "t", ".", "c", "o", "l", "o", "r">> ]

HasWcagPrefix(t) == Len(t) >= 4 /\ ToLowerCase(SubSeq(t, 1, 4)) = LhText.Wcag

\* /^wcag\d{2,4}[a-z]*$/i
MatchesWcagTag(t) ==
  /\ HasWcagPrefix(t)
  /\ \E d \in 2..4 :
       /\ Len(t) >= 4 + d
       /\ \A i \in 5..(4 + d) : t[i] \in CharClass.Digits
       /\ \A i \in (5 + d)..Len(t) : ToLowerCase(<<t[i]>>)[1] \in CharClass.Lower

\* /^wcag\d{3}$/i
MatchesWcagCriterionTag(t) ==
  /\ HasWcagPrefix(t)
  /\ Len(t) = 7
  /\ \A i \in 5..7 : t[i] \in CharClass.Digits

\* runnerResult.artifacts: absent, or the raw rule-engine entries
ArtifactsPool ==
  { [present |-> FALSE, entries |-> <<>>],
    [present |-> TRUE,
     entries |-> << [id |-> "color-contrast",
                     tags |-> <<LhText.CatColor, LhText.Wcag2aa, LhText.Wcag21aa, LhText.Wcag143>>],
                    [id |-> "html-has-lang", tags |-> <<LhText.Wcag2aa>>] >>] }

\* The map as the list of its (id, tags) entries in insertion order; a later
\* entry for an id replaces the earlier one.
BuildTagMapFromArtifacts(artifacts) ==
  IF ~artifacts.present THEN <<>>
  ELSE SelectSeq(
         [i \in 1..Len(artifacts.entries) |->
            [id   |-> artifacts.entries[i].id,
             tags |-> SelectSeq(artifacts.entries[i].tags, MatchesWcagTag)]],
         LAMBDA e : e.tags # <<>>)

\* artifactTagMap.get(id) ?? []
TagMapGet(tagMap, id) ==
  LET hits == {i \in 1..Len(tagMap) : tagMap[i].id = id}
  IN  IF hits = {} THEN <<>>
      ELSE tagMap[CHOOSE i \in hits : \A j \in hits : j <= i].tags

\* Mutant of IsFailedAudit: an audit that could not be scored is not failed.
IsFailedAuditZeroOnly(audit) == audit.score = "0"

\* audit.score === 0 || audit.score === null
IsFailedAudit(audit) == audit.score = "0" \/ audit.score = "null"

\* item.selector ?? item.node?.selector
ItemSelector(item) ==
  IF item.selector # "undefined" THEN item.selector ELSE item.nodeSelector

LhIssue(id, audit, tagMap) ==
  [ id       |-> id,
    score    |-> audit.score,
    wcagTags |-> SelectSeq(TagMapGet(tagMap, id), MatchesWcagCriterionTag),
    items    |-> [i \in 1..Len(audit.items) |->
                    [selector |-> ItemSelector(audit.items[i]),
                     snippet  |-> audit.items[i].snippet]] ]

RECURSIVE LhIssuesOf(_, _, _)
LhIssuesOf(refs, audits, tagMap) ==
  IF refs = <<>> THEN <<>>
  ELSE LET audit == audits[Head(refs)]
       IN  (IF audit.present /\ IsFailedAudit(audit)
            THEN <<LhIssue(Head(refs), audit, tagMap)>> ELSE <<>>)
           \o LhIssuesOf(Tail(refs), audits, tagMap)

NormalizeLhrToResult(lhr, tagMap) ==
  [ normalized |-> TRUE,
    score      |-> IF lhr.hasCategory THEN lhr.score ELSE "0",
    issues     |-> LhIssuesOf(IF lhr.hasCategory THEN lhr.auditRefs ELSE <<>>,
                              lhr.audits, tagMap) ]

\* runLighthouseScan once the auditor has returned a report
NormalizeLighthouseRun ==
  /\ pc = "lh:audited"
  /\ lhResult' = NormalizeLhrToResult(lhRun.lhr, BuildTagMapFromArtifacts(lhRun.artifacts))
  /\ pc' = "lh:normalized"
  /\ UNCHANGED <<lhRun, axeVars, treeVars, waveVars, extVars>>

\* The accessibility category lists an audit at most once.
DistinctRefs(refs) == \A i, j \in 1..Len(refs) : i # j => refs[i] # refs[j]

\* run is one of the runner results drawn
IsLighthouseRun(run) ==
  \E n \in 0..Cardinality(AuditIds) :
    \E refs \in [1..n -> AuditIds] :
      \E audits \in [AuditIds -> AuditRecords] :
        \E artifacts \in ArtifactsPool :
          \E hasCategory \in BOOLEAN :
            /\ DistinctRefs(refs)
            /\ (~hasCategory => refs = <<>>)
            /\ run = [ present   |-> TRUE,
                       lhr       |-> [ hasCategory |-> hasCategory,
                                       score       |-> "0.9",
                                       auditRefs   |-> refs,
                                       audits      |-> audits ],
                       artifacts |-> artifacts ]

----------------------------------------------------------------------------
(* Scored-audit adapter: properties                                        *)

LhRefs == IF lhRun.lhr.hasCategory THEN lhRun.lhr.auditRefs ELSE <<>>

\* C6: the adapter emits exactly one finding for each audit that is in the
\* accessibility category's membership list, has an audit record and has a
\* score of exactly 0 or null, and none for any other audit; the finding
\* carries all element descriptors of its audit.
C6_OneFindingPerFailedAudit ==
  pc = "lh:normalized" =>
    /\ \A id \in AuditIds :
         Count(lhResult.issues, LAMBDA i : i.id = id)
           = IF /\ id \in Range(LhRefs)
                /\ lhRun.lhr.audits[id].present
                /\ lhRun.lhr.audits[id].score \in {"0", "null"}
             THEN 1 ELSE 0
    /\ \A k \in 1..Len(lhResult.issues) :
         /\ lhResult.issues[k].id \in AuditIds
         /\ Len(lhResult.issues[k].items)
              = Len(lhRun.lhr.audits[lhResult.issues[k].id].items)
         /\ \A n \in 1..Len(lhResult.issues[k].items) :
              lhResult.issues[k].items[n].snippet
                = lhRun.lhr.audits[lhResult.issues[k].id].items[n].snippet

\* Scenario 3, with an unscored audit outside the membership list:
\* color-contrast has score 0, html-has-lang score 1.
C6_Witness ==
  /\ pc = "lh:normalized"
  /\ lhRun.lhr.auditRefs = <<"html-has-lang", "color-contrast">>
  /\ lhRun.lhr.audits["color-contrast"].present
  /\ lhRun.lhr.audits["color-contrast"].score = "0"
  /\ Len(lhRun.lhr.audits["color-contrast"].items) = 1
  /\ lhRun.lhr.audits["html-has-lang"].present
  /\ lhRun.lhr.audits["html-has-lang"].score = "1"
  /\ lhRun.lhr.audits["first-contentful-paint"].present
  /\ lhRun.lhr.audits["first-contentful-paint"].score = "null"
  /\ Len(lhResult.issues) = 1
  /\ lhResult.issues[1].id = "color-contrast"
  /\ Len(lhResult.issues[1].items) = 1

----------------------------------------------------------------------------
(* Visual capture: alt-text classification (utils/wave-capture-parser.ts)  *)
(* and the WCAG reference lookup (wave-wcag-reference)                     *)

\* String literals of the capture parser
WaveText ==
  [ Space         |-> <<" ">>,
    Other         |-> <<"O", "t", "h", "e", "r">>,
    ERROR         |-> <<"E", "R", "R", "O", "R">>,
    ALERT         |-> <<"A", "L", "E", "R", "T">>,
    FEATURE       |-> <<"F", "E", "A", "T", "U", "R", "E">>,
    ARIA          |-> <<"A", "R", "I", "A">>,
    CONTRAST      |-> <<"C", "O", "N", "T", "R", "A", "S", "T">>,
    STRUCTURAL    |-> <<"S", "T", "R", "U", "C", "T", "U", "R", "A", "L">>,
    STRUCTURE     |-> <<"S", "T", "R", "U", "C", "T", "U", "R", "E">>,
    HEADING       |-> <<"H", "E", "A", "D", "I", "N", "G">>,
    ELEMENT       |-> <<"E", "L", "E", "M", "E", "N", "T">>,
    Bar           |-> <<" ", "|", " ">>,
    ImgTag        |-> <<"i", "m", "g">>,
    SpanTag       |-> <<"s", "p", "a", "n">>,
    TabOrder      |-> <<"T", "a", "b", " ", "O", "r", "d", "e", "r">>,
    Reference     |-> <<"R", "e", "f", "e", "r", "e", "n", "c", "e">>,
    Semi          |-> <<";", " ">>,
    TabOrderCheck |-> <<"M", "a", "n", "u", "a", "l", " ", "c", "h", "e",
      "c", "k", ":", " ", "V", "e", "r", "i", "f", "y", " ", "k", "e", "y",
      "b", "o", "a", "r", "d", " ", "t", "a", "b", " ", "o", "r", "d", "e",
      "r", " ", "m", "a", "t", "c", "h", "e", "s", " ", "v", "i", "s", "u",
      "a", "l", " ", "o", "r", "d", "e", "r", " ", "a", "n", "d", " ", "a",
      "l", "l", " ", "i", "n", "t", "e", "r", "a", "c", "t", "i", "v", "e",
      " ", "e", "l", "e", "m", "e", "n", "t", "s", " ", "a", "r", "e", " ",
      "r", "e", "a", "c", "h", "a", "b", "l", "e", ".">> ]

\* X or XS, the alternatives of "XS?"
OptionalPlural(word) == {word, word \o <<"S">>}

\* first \s+ second, the text upper-cased
IsTwoWords(u, first, seconds) ==
  /\ Len(u) > Len(first)
  /\ SubSeq(u, 1, Len(first)) = first
  /\ LET rest == SubSeq(u, Len(first) + 1, Len(u))
     IN  Len(TrimLeft(rest)) < Len(rest) /\ TrimLeft(rest) \in seconds

\* (ERRORS?|CONTRAST\s+ERRORS?|ALERTS?|FEATURES?|STRUCTURAL\s+ELEMENTS?|ARIA), /i
IsCategoryWord(head) ==
  LET u == ToUpperCase(head)
  IN  \/ u \in OptionalPlural(WaveText.ERROR)
      \/ IsTwoWords(u, WaveText.CONTRAST, OptionalPlural(WaveText.ERROR))
      \/ u \in OptionalPlural(WaveText.ALERT)
      \/ u \in OptionalPlural(WaveText.FEATURE)
      \/ IsTwoWords(u, WaveText.STRUCTURAL, OptionalPlural(WaveText.ELEMENT))
      \/ u = WaveText.ARIA

\* Position of the first ":" of the text, 0 when it has none
FirstColon(alt) ==
  LET at == {i \in 1..Len(alt) : alt[i] = ":"}
  IN  IF at = {} THEN 0 ELSE CHOOSE i \in at : \A j \in at : i <= j

\* ALT_CATEGORY_REGEX.exec(alt): no category word holds a ":", so group 1
\* is the text before the first one; "." does not match a line break.
AltCategoryMatch(alt) ==
  LET c    == FirstColon(alt)
      head == SubSeq(alt, 1, c - 1)
      rest == TrimLeft(SubSeq(alt, c + 1, Len(alt)))
  IN  IF c > 0 /\ IsCategoryWord(head) /\ rest # <<>> /\ ~Includes(rest, <<"\n">>)
      THEN [matched |-> TRUE, category |-> head, description |-> rest]
      ELSE [matched |-> FALSE, category |-> <<>>, description |-> <<>>]

\* category and description of parseWaveCaptureHtml
CategoryOf(alt) ==
  LET match == AltCategoryMatch(alt)
  IN  IF match.matched THEN Trim(match.category) ELSE WaveText.Other

DescriptionOf(alt) ==
  LET match == AltCategoryMatch(alt)
  IN  IF match.matched THEN Trim(match.description) ELSE alt

CategoryToTab(category) ==
  LET c == ToUpperCase(category)
  IN  IF Includes(c, WaveText.CONTRAST) THEN "Contrast"
      ELSE IF Includes(c, WaveText.STRUCTURAL) \/ Includes(c, WaveText.HEADING) \/ Includes(c, WaveText.STRUCTURE)
        THEN "Structure"
      ELSE IF Includes(c, WaveText.ARIA) THEN "Details"
      ELSE IF Includes(c, WaveText.ERROR) \/ Includes(c, WaveText.ALERT) THEN "Details"
      ELSE IF Includes(c, WaveText.FEATURE) THEN "Structure"
      ELSE "Details"

\* Mutant of IsActionableFinding: alerts are informational.
IsActionableWithoutAlerts(category) ==
  LET c == ToUpperCase(category)
  IN  Includes(c, WaveText.ERROR) \/ Includes(c, WaveText.CONTRAST)

IsActionableFinding(category) ==
  LET c == ToUpperCase(category)
  IN  Includes(c, WaveText.ERROR) \/ Includes(c, WaveText.CONTRAST) \/ Includes(c, WaveText.ALERT)

\* The reference table in insertion order; a criterion is written by its
\* number, the explanation text is not modelled.
WAVE_WCAG_REF ==
  << [key |-> <<"n", "o", "s", "c", "r", "i", "p", "t", " ", "e", "l", "e", "m", "e", "n", "t">>,
      criteria |-> <<<<"2", ".", "1", ".", "1">>, <<"1", ".", "1", ".", "1">>>>],
     [key |-> <<"m", "i", "s", "s", "i", "n", "g", " ", "f", "o", "r", "m", " ", "l", "a", "b", "e", "l">>,
      criteria |-> <<<<"1", ".", "3", ".", "1">>, <<"2", ".", "4", ".", "6">>, <<"3", ".", "3", ".", "2">>>>],
     [key |-> <<"e", "m", "p", "t", "y", " ", "f", "o", "r", "m", " ", "l", "a", "b", "e", "l">>,
      criteria |-> <<<<"1", ".", "3", ".", "1">>, <<"3", ".", "3", ".", "2">>>>],
     [key |-> <<"m", "i", "s", "s", "i", "n", "g", " ", "a", "l", "t", "e", "r", "n", "a", "t", "i", "v", "e", " ", "t", "e", "x", "t">>,
      criteria |-> <<<<"1", ".", "1", ".", "1">>>>],
     [key |-> <<"v", "e", "r", "y", " ", "l", "o", "w", " ", "c", "o", "n", "t", "r", "a", "s", "t">>,
      criteria |-> <<<<"1", ".", "4", ".", "3">>>>],
     [key |-> <<"l", "a", "n", "g", "u", "a", "g", "e", " ", "m", "i", "s", "s", "i", "n", "g">>,
      criteria |-> <<<<"3", ".", "1", ".", "1">>>>],
     [key |-> <<"e", "m", "p", "t", "y", " ", "h", "e", "a", "d", "i", "n", "g">>,
      criteria |-> <<<<"1", ".", "3", ".", "1">>, <<"2", ".", "4", ".", "6">>>>],
     [key |-> <<"e", "m", "p", "t", "y", " ", "b", "u", "t", "t", "o", "n">>,
      criteria |-> <<<<"2", ".", "4", ".", "4">>, <<"4", ".", "1", ".", "2">>>>],
     [key |-> <<"e", "m", "p", "t", "y", " ", "l", "i", "n", "k">>,
      criteria |-> <<<<"2", ".", "4", ".", "4">>, <<"4", ".", "1", ".", "2">>>>],
     [key |-> <<"p", "o", "s", "s", "i", "b", "l", "e", " ", "h", "e", "a", "d", "i", "n", "g">>,
      criteria |-> <<<<"1", ".", "3", ".", "1">>, <<"2", ".", "4", ".", "6">>>>],
     [key |-> <<"h", "t", "m", "l", "5", " ", "v", "i", "d", "e", "o", " ", "o", "r", " ", "a", "u", "d", "i", "o">>,
      criteria |-> <<<<"1", ".", "2", ".", "1">>, <<"1", ".", "2", ".", "2">>>>],
     [key |-> <<"a", "r", "i", "a">>,
      criteria |-> <<<<"4", ".", "1", ".", "2">>>>],
     [key |-> <<"a", "r", "i", "a", " ", "l", "a", "b", "e", "l">>,
      criteria |-> <<<<"4", ".", "1", ".", "2">>>>],
     [key |-> <<"a", "r", "i", "a", " ", "e", "x", "p", "a", "n", "d", "e", "d">>,
      criteria |-> <<<<"4", ".", "1", ".", "2">>>>],
     [key |-> <<"a", "r", "i", "a", " ", "p", "o", "p", "u", "p">>,
      criteria |-> <<<<"4", ".", "1", ".", "2">>>>],
     [key |-> <<"a", "r", "i", "a", " ", "t", "a", "b", "i", "n", "d", "e", "x">>,
      criteria |-> <<<<"2", ".", "1", ".", "1">>, <<"4", ".", "1", ".", "2">>>>],
     [key |-> <<"a", "r", "i", "a", " ", "h", "i", "d", "d", "e", "n">>,
      criteria |-> <<<<"4", ".", "1", ".", "2">>>>],
     [key |-> <<"c", "o", "n", "t", "r", "a", "s", "t">>,
      criteria |-> <<<<"1", ".", "4", ".", "3">>>>],
     [key |-> <<"h", "e", "a", "d", "i", "n", "g", " ", "l", "e", "v", "e", "l">>,
      criteria |-> <<<<"1", ".", "3", ".", "1">>, <<"2", ".", "4", ".", "6">>>>],
     [key |-> <<"m", "a", "i", "n", " ", "c", "o", "n", "t", "e", "n", "t">>,
      criteria |-> <<<<"1", ".", "3", ".", "1">>, <<"2", ".", "4", ".", "1">>>>],
     [key |-> <<"n", "a", "v", "i", "g", "a", "t", "i", "o", "n">>,
      criteria |-> <<<<"2", ".", "4", ".", "1">>>>],
     [key |-> <<"s", "k", "i", "p", " ", "l", "i", "n", "k">>,
      criteria |-> <<<<"2", ".", "4", ".", "1">>>>],
     [key |-> <<"u", "n", "o", "r", "d", "e", "r", "e", "d", " ", "l", "i", "s", "t">>,
      criteria |-> <<<<"1", ".", "3", ".", "1">>>>],
     [key |-> <<"t", "a", "b", " ", "o", "r", "d", "e", "r">>,
      criteria |-> <<<<"2", ".", "4", ".", "3">>, <<"2", ".", "1", ".", "1">>>>] >>

NoWcagRef == [found |-> FALSE, key |-> <<>>, criteria |-> <<>>]

\* Mutant of WcagRefOfKey: a reference that cites nothing.
WcagRefWithoutCriteria(key) == [found |-> TRUE, key |-> key, criteria |-> <<>>]

\* WAVE_WCAG_REF[key] ?? null
WcagRefOfKey(key) ==
  LET hits == {k \in 1..Len(WAVE_WCAG_REF) : WAVE_WCAG_REF[k].key = key}
  IN  IF hits = {} THEN NoWcagRef
      ELSE [found |-> TRUE, key |-> key,
            criteria |-> WAVE_WCAG_REF[CHOOSE k \in hits : TRUE].criteria]

\* Index of the first table entry, from k on, whose key the finding's text
\* holds; 0 when there is none
RECURSIVE FirstKeyHit(_, _, _)
FirstKeyHit(normalized, d, k) ==
  IF k > Len(WAVE_WCAG_REF) THEN 0
  ELSE IF Includes(normalized, WAVE_WCAG_REF[k].key) \/ Includes(d, WAVE_WCAG_REF[k].key)
    THEN k
  ELSE FirstKeyHit(normalized, d, k + 1)

GetWcagRefForFinding(description, category) ==
  LET normalized == ToLowerCase(category \o WaveText.Space \o description)
      d   == ToLowerCase(description)
      hit == FirstKeyHit(normalized, d, 1)
  IN  IF hit # 0 THEN WcagRefOfKey(WAVE_WCAG_REF[hit].key)
      ELSE IF Includes(ToUpperCase(category), WaveText.CONTRAST) THEN WcagRefOfKey(<<"c", "o", "n", "t", "r", "a", "s", "t">>)
      ELSE IF Includes(ToUpperCase(category), WaveText.ARIA) THEN WcagRefOfKey(<<"a", "r", "i", "a">>)
      ELSE IF Includes(d, <<"h", "e", "a", "d", "i", "n", "g">>) THEN WcagRefOfKey(<<"h", "e", "a", "d", "i", "n", "g", " ", "l", "e", "v", "e", "l">>)
      ELSE IF Includes(d, <<"l", "a", "b", "e", "l">>)
        THEN WcagRefOfKey(<<"m", "i", "s", "s", "i", "n", "g", " ", "f", "o", "r", "m", " ", "l", "a", "b", "e", "l">>)
      ELSE IF Includes(d, <<"a", "l", "t">>) \/ Includes(d, <<"i", "m", "a", "g", "e">>)
        THEN WcagRefOfKey(<<"m", "i", "s", "s", "i", "n", "g", " ", "a", "l", "t", "e", "r", "n", "a", "t", "i", "v", "e", " ", "t", "e", "x", "t">>)
      ELSE NoWcagRef

\* Array.prototype.join
RECURSIVE Join(_, _)
Join(texts, sep) ==
  IF texts = <<>> THEN <<>>
  ELSE IF Len(texts) = 1 THEN texts[1]
  ELSE texts[1] \o sep \o Join(Tail(texts), sep)

\* wcagRefFor: the criteria joined, or undefined
WcagRefFor(category, description) ==
  LET ref == GetWcagRefForFinding(description, category)
  IN  IF ref.found THEN Defined(Join(ref.criteria, WaveText.Bar)) ELSE Undefined

----------------------------------------------------------------------------
(* Visual capture: the capture markup and parseWaveCaptureHtml             *)

\* The capture markup is a sequence of pieces:
\*   "icon"      <img class="wave5icon" alt="TEXT">, text the raw alt
\*   "tag"       any other tag, text the tag as written
\*   "wave5text" <span class="wave5text">TEXT</span>, text the label
\*   "text"      character data without "<"
Icon(alt)       == [kind |-> "icon", text |-> alt]
Tag(raw)        == [kind |-> "tag", text |-> raw]
Wave5Text(text) == [kind |-> "wave5text", text |-> text]


RECURSIVE TakeAlphaNumeric(_)
TakeAlphaNumeric(t) ==
  IF t # <<>> /\ Head(t) \in CharClass.AlphaNumeric
  THEN <<Head(t)>> \o TakeAlphaNumeric(Tail(t)) ELSE <<>>

\* frag.match(/^<([a-zA-Z][a-zA-Z0-9]*)\s*/), lower-cased; <<>> when the
\* piece does not open a tag
TagNameOf(piece) ==
  CASE piece.kind = "icon"      -> WaveText.ImgTag
    [] piece.kind = "wave5text" -> WaveText.SpanTag
    [] piece.kind = "tag" ->
         IF /\ Len(piece.text) >= 2
            /\ piece.text[1] = "<"
            /\ piece.text[2] \in (CharClass.Upper \cup CharClass.Lower)
         THEN ToLowerCase(TakeAlphaNumeric(Tail(piece.text)))
         ELSE <<>>
    [] OTHER -> <<>>

SnippetTags ==
  { <<"n", "o", "s", "c", "r", "i", "p", "t">>,
    <<"n", "a", "v">>,
    <<"h", "e", "a", "d", "e", "r">>,
    <<"f", "o", "o", "t", "e", "r">>,
    <<"m", "a", "i", "n">>,
    <<"h", "1">>,
    <<"h", "2">>,
    <<"h", "3">>,
    <<"h", "4">>,
    <<"h", "5">>,
    <<"h", "6">>,
    <<"u", "l">>,
    <<"o", "l">>,
    <<"l", "i">>,
    <<"b", "u", "t", "t", "o", "n">>,
    <<"a">>,
    <<"i", "n", "p", "u", "t">>,
    <<"s", "e", "l", "e", "c", "t">>,
    <<"t", "e", "x", "t", "a", "r", "e", "a">>,
    <<"l", "a", "b", "e", "l">>,
    <<"i", "m", "g">>,
    <<"i", "f", "r", "a", "m", "e">>,
    <<"f", "o", "r", "m">>,
    <<"s", "e", "c", "t", "i", "o", "n">>,
    <<"a", "r", "t", "i", "c", "l", "e">>,
    <<"a", "s", "i", "d", "e">>,
    <<"f", "i", "g", "u", "r", "e">>,
    <<"f", "i", "g", "c", "a", "p", "t", "i", "o", "n">>,
    <<"t", "a", "b", "l", "e">>,
    <<"t", "h">>,
    <<"t", "d">>,
    <<"t", "r">> }

\* The 400-character fragment reaches the piece it starts at and the one
\* that follows it.
FragSpan == 2

SnippetMax == 120

Frag(h, j) == SubSeq(h, j, IF j + FragSpan - 1 < Len(h) THEN j + FragSpan - 1 ELSE Len(h))

FragHasKind(h, j, kind) == \E k \in 1..Len(Frag(h, j)) : Frag(h, j)[k].kind = kind

\* Label of the first wave5text of the fragment
FragLabel(h, j) ==
  LET f  == Frag(h, j)
      at == {k \in 1..Len(f) : f[k].kind = "wave5text"}
  IN  f[CHOOSE k \in at : \A n \in at : k <= n].text

\* text.replace(/\*/g, '')
RemoveStars(t) == SelectSeq(t, LAMBDA c : c # "*")

Truncate(raw) ==
  IF Len(raw) > SnippetMax
  THEN SubSeq(raw, 1, SnippetMax - 3) \o <<".", ".", ".">> ELSE raw

\* Next piece at or after j that starts with "<", 0 when there is none
NextOpen(h, j) ==
  LET at == {k \in j..Len(h) : h[k].kind # "text"}
  IN  IF at = {} THEN 0 ELSE CHOOSE k \in at : \A n \in at : k <= n

\* getElementInfoAfterIcon from piece j on, i iterations done
RECURSIVE ElementInfoFrom(_, _, _)
ElementInfoFrom(h, j, i) ==
  IF i >= 5 THEN Undefined
  ELSE
    LET start == NextOpen(h, j)
    IN  IF start = 0 THEN Undefined
        ELSE
          LET tag == TagNameOf(h[start])
          IN  IF tag = <<>> THEN Undefined
              ELSE IF tag = WaveText.ImgTag /\ FragHasKind(h, start, "icon")
                THEN ElementInfoFrom(h, start + 1, i + 1)
              ELSE IF /\ tag = WaveText.SpanTag
                      /\ FragHasKind(h, start, "wave5text")
                      /\ FragLabel(h, start) # <<>>
                THEN LET text == Trim(RemoveStars(FragLabel(h, start)))
                     IN  IF text # <<>> THEN Defined(text) ELSE Undefined
              ELSE IF tag \in SnippetTags
                THEN Defined(Truncate(h[start].text))
              ELSE Undefined

GetElementInfoAfterIcon(h, icon) == ElementInfoFrom(h, icon + 1, 0)

\* The keyword chain, in source order (the dash of the skipped-heading hint
\* is written "-")
ElementHintFromDescription(description) ==
  LET d == ToLowerCase(description)
  IN  IF Includes(d, <<"n", "o", "s", "c", "r", "i", "p", "t">>)
        THEN <<"<", "n", "o", "s", "c", "r", "i", "p", "t", ">">>
      ELSE IF Includes(d, <<"h", "e", "a", "d", "i", "n", "g", " ", "l", "e", "v", "e", "l", " ", "1">>) \/ Includes(d, <<"h", "1">>)
        THEN <<"<", "h", "1", ">">>
      ELSE IF Includes(d, <<"h", "e", "a", "d", "i", "n", "g", " ", "l", "e", "v", "e", "l", " ", "2">>) \/ Includes(d, <<"h", "2">>)
        THEN <<"<", "h", "2", ">">>
      ELSE IF Includes(d, <<"h", "e", "a", "d", "i", "n", "g", " ", "l", "e", "v", "e", "l", " ", "3">>) \/ Includes(d, <<"h", "3">>)
        THEN <<"<", "h", "3", ">">>
      ELSE IF Includes(d, <<"h", "e", "a", "d", "i", "n", "g", " ", "l", "e", "v", "e", "l", " ", "4">>) \/ Includes(d, <<"h", "4">>)
        THEN <<"<", "h", "4", ">">>
      ELSE IF Includes(d, <<"h", "e", "a", "d", "i", "n", "g", " ", "l", "e", "v", "e", "l", " ", "5">>) \/ Includes(d, <<"h", "5">>)
        THEN <<"<", "h", "5", ">">>
      ELSE IF Includes(d, <<"h", "e", "a", "d", "i", "n", "g", " ", "l", "e", "v", "e", "l", " ", "6">>) \/ Includes(d, <<"h", "6">>)
        THEN <<"<", "h", "6", ">">>
      ELSE IF Includes(d, <<"n", "a", "v", "i", "g", "a", "t", "i", "o", "n">>)
        THEN <<"<", "n", "a", "v", ">">>
      ELSE IF Includes(d, <<"h", "e", "a", "d", "e", "r">>)
        THEN <<"<", "h", "e", "a", "d", "e", "r", ">">>
      ELSE IF Includes(d, <<"f", "o", "o", "t", "e", "r">>)
        THEN <<"<", "f", "o", "o", "t", "e", "r", ">">>
      ELSE IF Includes(d, <<"m", "a", "i", "n">>)
        THEN <<"<", "m", "a", "i", "n", ">">>
      ELSE IF Includes(d, <<"u", "n", "o", "r", "d", "e", "r", "e", "d", " ", "l", "i", "s", "t">>) \/ Includes(d, <<"u", "l">>)
        THEN <<"<", "u", "l", ">">>
      ELSE IF Includes(d, <<"o", "r", "d", "e", "r", "e", "d", " ", "l", "i", "s", "t">>) \/ Includes(d, <<"o", "l">>)
        THEN <<"<", "o", "l", ">">>
      ELSE IF Includes(d, <<"l", "i", "s", "t", " ", "i", "t", "e", "m">>) \/ Includes(d, <<"l", "i">>)
        THEN <<"<", "l", "i", ">">>
      ELSE IF Includes(d, <<"b", "u", "t", "t", "o", "n">>)
        THEN <<"<", "b", "u", "t", "t", "o", "n", ">">>
      ELSE IF Includes(d, <<"l", "i", "n", "k">>) \/ Includes(d, <<"s", "k", "i", "p", " ", "l", "i", "n", "k">>)
        THEN <<"<", "a", ">">>
      ELSE IF Includes(d, <<"m", "i", "s", "s", "i", "n", "g", " ", "f", "o", "r", "m", " ", "l", "a", "b", "e", "l">>) \/ Includes(d, <<"m", "i", "s", "s", "i", "n", "g", " ", "l", "a", "b", "e", "l">>)
        THEN <<"<", "i", "n", "p", "u", "t", ">", " ", "o", "r", " ", "<", "s", "e", "l", "e", "c", "t", ">", " ", "(", "m", "i", "s", "s", "i", "n", "g", " ", "a", "s", "s", "o", "c", "i", "a", "t", "e", "d", " ", "<", "l", "a", "b", "e", "l", ">", ")">>
      ELSE IF Includes(d, <<"e", "m", "p", "t", "y", " ", "f", "o", "r", "m", " ", "l", "a", "b", "e", "l">>)
        THEN <<"<", "i", "n", "p", "u", "t", ">", " ", "/", " ", "<", "s", "e", "l", "e", "c", "t", ">", " ", "(", "e", "m", "p", "t", "y", " ", "o", "r", " ", "i", "n", "e", "f", "f", "e", "c", "t", "i", "v", "e", " ", "<", "l", "a", "b", "e", "l", ">", ")">>
      ELSE IF Includes(d, <<"m", "u", "l", "t", "i", "p", "l", "e", " ", "f", "o", "r", "m", " ", "l", "a", "b", "e", "l", "s">>)
        THEN <<"<", "i", "n", "p", "u", "t", ">", " ", "/", " ", "<", "s", "e", "l", "e", "c", "t", ">", " ", "(", "m", "u", "l", "t", "i", "p", "l", "e", " ", "<", "l", "a", "b", "e", "l", ">", "s", ")">>
      ELSE IF Includes(d, <<"m", "i", "s", "s", "i", "n", "g", " ", "a", "l", "t", "e", "r", "n", "a", "t", "i", "v", "e">>) \/ Includes(d, <<"a", "l", "t">>)
        THEN <<"<", "i", "m", "g", ">", " ", "(", "m", "i", "s", "s", "i", "n", "g", " ", "o", "r", " ", "e", "m", "p", "t", "y", " ", "a", "l", "t", ")">>
      ELSE IF Includes(d, <<"a", "r", "i", "a", " ", "l", "a", "b", "e", "l">>)
        THEN <<"e", "l", "e", "m", "e", "n", "t", " ", "w", "i", "t", "h", " ", "a", "r", "i", "a", "-", "l", "a", "b", "e", "l">>
      ELSE IF Includes(d, <<"a", "r", "i", "a", " ", "e", "x", "p", "a", "n", "d", "e", "d">>)
        THEN <<"e", "l", "e", "m", "e", "n", "t", " ", "w", "i", "t", "h", " ", "a", "r", "i", "a", "-", "e", "x", "p", "a", "n", "d", "e", "d">>
      ELSE IF Includes(d, <<"a", "r", "i", "a", " ">>) \/ Includes(d, <<"r", "o", "l", "e", "=">>)
        THEN <<"e", "l", "e", "m", "e", "n", "t", " ", "w", "i", "t", "h", " ", "A", "R", "I", "A", " ", "r", "o", "l", "e", "/", "a", "t", "t", "r", "i", "b", "u", "t", "e">>
      ELSE IF Includes(d, <<"l", "a", "n", "g", "u", "a", "g", "e">>) \/ Includes(d, <<"l", "a", "n", "g">>)
        THEN <<"e", "l", "e", "m", "e", "n", "t", " ", "w", "i", "t", "h", " ", "l", "a", "n", "g", "/", "h", "r", "e", "f", "l", "a", "n", "g">>
      ELSE IF Includes(d, <<"s", "k", "i", "p", "p", "e", "d", " ", "h", "e", "a", "d", "i", "n", "g">>)
        THEN <<"<", "h", "2", ">", "-", "<", "h", "6", ">", " ", "(", "h", "e", "a", "d", "i", "n", "g", " ", "l", "e", "v", "e", "l", " ", "s", "k", "i", "p", "p", "e", "d", " ", "i", "n", " ", "s", "e", "q", "u", "e", "n", "c", "e", ")">>
      ELSE IF Includes(d, <<"r", "e", "d", "u", "n", "d", "a", "n", "t", " ", "l", "i", "n", "k">>)
        THEN <<"<", "a", ">", " ", "(", "r", "e", "d", "u", "n", "d", "a", "n", "t", " ", "w", "i", "t", "h", " ", "a", "d", "j", "a", "c", "e", "n", "t", " ", "l", "i", "n", "k", ")">>
      ELSE IF Includes(d, <<"e", "m", "p", "t", "y", " ", "b", "u", "t", "t", "o", "n">>)
        THEN <<"<", "b", "u", "t", "t", "o", "n", ">">>
      ELSE description

\* WAVE_ICON_ALT_REGEX.exec(html) with the scan position after piece `from`:
\* the next icon whose alt holds at least one character, 0 for null
NextIconAfter(h, from) ==
  LET at == {k \in (from + 1)..Len(h) : h[k].kind = "icon" /\ h[k].text # <<>>}
  IN  IF at = {} THEN 0 ELSE CHOOSE k \in at : \A n \in at : k <= n

\* Mutant of LastIndexOnNull: the scan position stays at the end.
LastIndexKeptOnNull(h) == Len(h)

\* A global regular expression that finds no further match resets lastIndex.
LastIndexOnNull(h) == 0

FindingAt(h, icon, alt) ==
  LET category    == CategoryOf(alt)
      description == DescriptionOf(alt)
      elementInfo == GetElementInfoAfterIcon(h, icon)
  IN  [ category    |-> category,
        description |-> description,
        tab         |-> CategoryToTab(category),
        wcagRef     |-> WcagRefFor(category, description),
        elementInfo |-> IF elementInfo.defined THEN elementInfo
                        ELSE Defined(ElementHintFromDescription(description)) ]

\* Mutant of KeepFirst: a repeated alt text replaces the earlier finding.
KeepLast(findings, seen, alt, finding) ==
  IF alt \in seen
  THEN SelectSeq(findings, LAMBDA f : f.category # finding.category
                                       \/ f.description # finding.description)
       \o <<finding>>
  ELSE Append(findings, finding)

\* if (!alt || seen.has(alt)) continue; ... findings.push(...)
KeepFirst(findings, seen, alt, finding) ==
  IF alt \in seen THEN findings ELSE Append(findings, finding)

\* The while loop of parseWaveCaptureHtml from scan position `from`
RECURSIVE ScanIcons(_, _, _, _)
ScanIcons(h, from, seen, findings) ==
  LET icon == NextIconAfter(h, from)
  IN  IF icon = 0
      THEN [findings |-> findings, lastIndex |-> LastIndexOnNull(h)]
      ELSE LET alt == Trim(h[icon].text)
           IN  IF alt = <<>> THEN ScanIcons(h, icon, seen, findings)
               ELSE ScanIcons(h, icon, seen \cup {alt},
                              KeepFirst(findings, seen, alt, FindingAt(h, icon, alt)))

\* parseWaveCaptureHtml when the regular expression's lastIndex is `lastIndex`
ParseWaveCaptureHtml(h, lastIndex) == ScanIcons(h, lastIndex, {}, <<>>)

----------------------------------------------------------------------------
(* Visual capture: findingsToJiraIssues and the capture-to-JIRA script     *)

TabOrderPlaceholder ==
  [ category    |-> WaveText.TabOrder,
    description |-> WaveText.TabOrderCheck,
    tab         |-> "Tab Order",
    wcagRef     |-> Undefined,
    elementInfo |-> Undefined ]

\* Mutant of JiraList: the filter option is ignored.
JiraListUnfiltered(findings, actionableOnly) == findings

\* options?.actionableOnly ? findings.filter(...) : findings
JiraList(findings, actionableOnly) ==
  IF actionableOnly
  THEN SelectSeq(findings, LAMBDA f : IsActionableFinding(f.category))
  ELSE findings

\* Elements of a sequence without repetition, in order of first occurrence
RECURSIVE Distinct(_)
Distinct(s) ==
  IF s = <<>> THEN <<>>
  ELSE LET init == SubSeq(s, 1, Len(s) - 1)
           last == s[Len(s)]
       IN  IF last \in Range(init) THEN Distinct(init)
           ELSE Append(Distinct(init), last)

\* refSet: the distinct wcagRef of ALL findings handed in
RefSet(findings) ==
  Distinct([i \in 1..Len(SelectSeq(findings, LAMBDA f : f.wcagRef.defined)) |->
              SelectSeq(findings, LAMBDA f : f.wcagRef.defined)[i].wcagRef.text])

ReferenceItem(refs) ==
  [ category    |-> WaveText.Reference,
    description |-> Join(refs, WaveText.Bar),
    tab         |-> "Reference",
    wcagRef     |-> Defined(Join(refs, WaveText.Semi)),
    elementInfo |-> Undefined ]

\* byTab as the list of its (tab, findings) entries in insertion order
ByTab(findings, actionableOnly) ==
  LET list    == JiraList(findings, actionableOnly)
      tabs    == Distinct([i \in 1..Len(list) |-> list[i].tab])
      scraped == [k \in 1..Len(tabs) |->
                    [tab |-> tabs[k], list |-> SelectSeq(list, LAMBDA f : f.tab = tabs[k])]]
      withTab == IF "Tab Order" \in Range(tabs) THEN scraped
                 ELSE Append(scraped, [tab |-> "Tab Order", list |-> <<TabOrderPlaceholder>>])
      refs    == RefSet(findings)
  IN  IF refs # <<>> /\ "Reference" \notin Range(tabs)
      THEN Append(withTab, [tab |-> "Reference", list |-> <<ReferenceItem(refs)>>])
      ELSE withTab

\* Mutant of IsActionable: the two synthetic tabs are judged by category
\* like any scraped finding.
IsActionableByCategory(finding) == IsActionableFinding(finding.category)

IsActionable(finding) ==
  IF finding.tab = "Tab Order" THEN TRUE
  ELSE IF finding.tab = "Reference" THEN FALSE
  ELSE IsActionableFinding(finding.category)

\* One issue; of its fields the model keeps the tab, the actionable flag and
\* what the body quotes of the finding (category, description, element,
\* citation), and whether the informational status line is put first.
JiraIssue(tab, f) ==
  [ tab           |-> tab,
    actionable    |-> IsActionable(f),
    statusLine    |-> ~IsActionable(f),
    category      |-> f.category,
    actual        |-> f.description,
    elements      |-> f.elementInfo,
    fails         |-> f.wcagRef ]

FindingsToJiraIssues(findings, actionableOnly) ==
  LET byTab == ByTab(findings, actionableOnly)
  IN  Flatten([k \in 1..Len(byTab) |->
                 [n \in 1..Len(byTab[k].list) |-> JiraIssue(byTab[k].tab, byTab[k].list[n])]])

\* main of wave-capture-to-jira: parse the capture, turn it into issues
WaveCaptureToJira ==
  /\ pc = "jira:start"
  /\ LET parsed == ParseWaveCaptureHtml(captureHtml, regexLastIndex)
     IN  /\ captureFindings' = parsed.findings
         /\ regexLastIndex' = parsed.lastIndex
         /\ jiraIssues' = FindingsToJiraIssues(parsed.findings, jiraOptions.actionableOnly)
  /\ parseCalls' = parseCalls + 1
  /\ pc' = "jira:done"
  /\ UNCHANGED <<captureHtml, jiraOptions, axeVars, treeVars, lhVars, extVars>>

MaxCapturePieces == 3

\* Alt texts, a tag and a label of the captures drawn: categories of all
\* six kinds in either letter case, no category, padding, blank
CaptureText ==
  [ MissingLabel  |-> <<"E", "R", "R", "O", "R", "S", ":", " ", "M", "i",
      "s", "s", "i", "n", "g", " ", "f", "o", "r", "m", " ", "l", "a", "b",
      "e", "l">>,
    PaddedLabel   |-> <<" ", "E", "R", "R", "O", "R", "S", ":", " ", "M",
      "i", "s", "s", "i", "n", "g", " ", "f", "o", "r", "m", " ", "l", "a",
      "b", "e", "l", " ">>,
    EmptyButton   |-> <<"E", "R", "R", "O", "R", "S", ":", " ", "E", "m",
      "p", "t", "y", " ", "b", "u", "t", "t", "o", "n">>,
    LowContrast   |-> <<"C", "O", "N", "T", "R", "A", "S", "T", " ", "E",
      "R", "R", "O", "R", "S", ":", " ", "V", "e", "r", "y", " ", "l", "o",
      "w", " ", "c", "o", "n", "t", "r", "a", "s", "t">>,
    RedundantLink |-> <<"a", "l", "e", "r", "t", "s", ":", " ", "R", "e",
      "d", "u", "n", "d", "a", "n", "t", " ", "l", "i", "n", "k">>,
    AriaAlert     |-> <<"A", "R", "I", "A", ":", " ", "A", "R", "I", "A",
      " ", "a", "l", "e", "r", "t", " ", "o", "r", " ", "l", "i", "v", "e",
      " ", "r", "e", "g", "i", "o", "n">>,
    Heading1      |-> <<"S", "T", "R", "U", "C", "T", "U", "R", "A", "L",
      " ", "E", "L", "E", "M", "E", "N", "T", "S", ":", " ", "H", "e", "a",
      "d", "i", "n", "g", " ", "l", "e", "v", "e", "l", " ", "1">>,
    FormLabel     |-> <<"F", "E", "A", "T", "U", "R", "E", "S", ":", " ",
      "F", "o", "r", "m", " ", "l", "a", "b", "e", "l">>,
    Unclassified  |-> <<"C", "o", "n", "t", "r", "a", "s", "t", " ", "c",
      "h", "e", "c", "k", "e", "r">>,
    Blank         |-> <<" ", " ">>,
    InputTag      |-> <<"<", "i", "n", "p", "u", "t", " ", "i", "d", "=",
      "\"", "q", "\"", ">">>,
    SearchLabel   |-> <<"*", "S", "e", "a", "r", "c", "h", "*">> ]

CapturePieces ==
  { Icon(CaptureText.MissingLabel), Icon(CaptureText.PaddedLabel), Icon(CaptureText.EmptyButton),
    Icon(CaptureText.LowContrast), Icon(CaptureText.RedundantLink), Icon(CaptureText.AriaAlert),
    Icon(CaptureText.Heading1), Icon(CaptureText.FormLabel), Icon(CaptureText.Unclassified),
    Icon(CaptureText.Blank), Tag(CaptureText.InputTag), Wave5Text(CaptureText.SearchLabel) }

\* h is one of the capture markups drawn
IsCapture(h) ==
  \E n \in 0..MaxCapturePieces : \E pieces \in [1..n -> CapturePieces] : h = pieces

\* The issues of the conversion that are listed under a tab
IssuesOfTab(tab) == SelectSeq(jiraIssues, LAMBDA i : i.tab = tab)

\* The WCAG citations the scraped findings carry
ScrapedCitations ==
  { captureFindings[k].wcagRef.text :
      k \in {j \in 1..Len(captureFindings) : captureFindings[j].wcagRef.defined} }

----------------------------------------------------------------------------
(* Visual capture: repeated parseWaveCaptureHtml calls in one process      *)

MaxCallPieces == 3
MaxParseCalls == 2

CallPieces ==
  { Icon(CaptureText.MissingLabel), Icon(CaptureText.RedundantLink), Icon(CaptureText.Blank), Tag(CaptureText.InputTag) }

\* One call of parseWaveCaptureHtml on a capture file
ParseCapture ==
  /\ pc \in {"parse:idle", "parse:returned"}
  /\ parseCalls < MaxParseCalls
  /\ \E n \in 0..MaxCallPieces : \E h \in [1..n -> CallPieces] :
       LET parsed == ParseWaveCaptureHtml(h, regexLastIndex)
       IN  /\ captureHtml' = h
           /\ captureFindings' = parsed.findings
           /\ regexLastIndex' = parsed.lastIndex
  /\ parseCalls' = parseCalls + 1
  /\ pc' = "parse:returned"
  /\ UNCHANGED <<jiraOptions, jiraIssues, axeVars, treeVars, lhVars, extVars>>

----------------------------------------------------------------------------
(* Visual capture: properties                                              *)

\* The category is errors, contrast errors or alerts (singular or plural,
\* in any letter case).
IsFixListCategory(category) ==
  LET u == ToUpperCase(category)
  IN  \/ u \in OptionalPlural(WaveText.ERROR) \cup OptionalPlural(WaveText.ALERT)
      \/ IsTwoWords(u, WaveText.CONTRAST, OptionalPlural(WaveText.ERROR))

\* The category is features, structural elements or ARIA.
IsInventoryCategory(category) ==
  LET u == ToUpperCase(category)
  IN  \/ u \in OptionalPlural(WaveText.FEATURE) \cup {WaveText.ARIA}
      \/ IsTwoWords(u, WaveText.STRUCTURAL, OptionalPlural(WaveText.ELEMENT))

SyntheticTabs == {"Tab Order", "Reference"}

ScrapedIssues == SelectSeq(jiraIssues, LAMBDA i : i.tab \notin SyntheticTabs)

OriginatesFromFinding(issue) ==
  \E k \in 1..Len(captureFindings) :
    /\ captureFindings[k].category = issue.category
    /\ captureFindings[k].description = issue.actual
    /\ captureFindings[k].tab = issue.tab

C8_ActionableByCategoryAlone ==
  pc = "jira:done" =>
    /\ \A k \in 1..Len(ScrapedIssues) :
         /\ IsFixListCategory(ScrapedIssues[k].category) => ScrapedIssues[k].actionable
         /\ IsInventoryCategory(ScrapedIssues[k].category) => ~ScrapedIssues[k].actionable
         /\ ScrapedIssues[k].category = WaveText.Other => ~ScrapedIssues[k].actionable
         /\ \/ IsFixListCategory(ScrapedIssues[k].category)
            \/ IsInventoryCategory(ScrapedIssues[k].category)
            \/ ScrapedIssues[k].category = WaveText.Other
    /\ \A k, n \in 1..Len(ScrapedIssues) :
         ScrapedIssues[k].category = ScrapedIssues[n].category
           => ScrapedIssues[k].actionable = ScrapedIssues[n].actionable

\* Two errors with different descriptions are both actionable, and an ARIA
\* item whose description speaks of an alert is informational.
C8_Witness ==
  /\ pc = "jira:done"
  /\ ~jiraOptions.actionableOnly
  /\ captureHtml = <<Icon(CaptureText.MissingLabel), Icon(CaptureText.AriaAlert), Icon(CaptureText.EmptyButton)>>
  /\ Len(ScrapedIssues) = 3
  /\ \E k, n \in 1..3 :
       /\ k # n
       /\ ScrapedIssues[k].category = ScrapedIssues[n].category
       /\ ScrapedIssues[k].actual # ScrapedIssues[n].actual
       /\ ScrapedIssues[k].actionable /\ ScrapedIssues[n].actionable
  /\ \E k \in 1..3 :
       /\ ScrapedIssues[k].category = WaveText.ARIA
       /\ Includes(ToUpperCase(ScrapedIssues[k].actual), WaveText.ALERT)
       /\ ~ScrapedIssues[k].actionable

\* C9: whatever calls were made before, a call of parseWaveCaptureHtml
\* returns the findings a first call on the same markup returns, and the
\* global regular expression is left with scan position 0.
C9_ParseIndependentOfEarlierCalls ==
  pc = "parse:returned" =>
    /\ regexLastIndex = 0
    /\ captureFindings = ParseWaveCaptureHtml(captureHtml, 0).findings

\* A second call in the process, on a markup whose icons are found again.
C9_Witness ==
  /\ pc = "parse:returned"
  /\ parseCalls = 2
  /\ captureHtml = <<Icon(CaptureText.MissingLabel), Tag(CaptureText.InputTag), Icon(CaptureText.RedundantLink)>>
  /\ Len(captureFindings) = 2

\* Icons of the markup that yield an alt text: position in the markup
AltIcons(h) == {i \in 1..Len(h) : h[i].kind = "icon" /\ h[i].text # <<>>}

\* Positions of the icons that are the first with their trimmed alt text
FirstOccurrences(h) ==
  {i \in AltIcons(h) :
     /\ Trim(h[i].text) # <<>>
     /\ \A j \in AltIcons(h) : j < i => Trim(h[j].text) # Trim(h[i].text)}

\* The k-th smallest element of a set of positions
RECURSIVE KthOf(_, _)
KthOf(positions, k) ==
  LET least == CHOOSE i \in positions : \A j \in positions : i <= j
  IN  IF k = 1 THEN least ELSE KthOf(positions \ {least}, k - 1)

\* C10 as stated: one finding per distinct alt text present in the markup.
C10_OneFindingPerWrittenAlt ==
  pc = "jira:done" =>
    Len(captureFindings) = Cardinality({captureHtml[i].text : i \in AltIcons(captureHtml)})

\* C10, amended: parseWaveCaptureHtml returns exactly one finding per
\* distinct alt text after trimming, blank alt texts left out, in order of
\* first occurrence, with every field (the element snippet included) taken
\* at the first occurrence.
C10_OneFindingPerTrimmedAlt ==
  pc = "jira:done" =>
    /\ Len(captureFindings) = Cardinality(FirstOccurrences(captureHtml))
    /\ \A k \in 1..Len(captureFindings) :
         LET first == KthOf(FirstOccurrences(captureHtml), k)
         IN  captureFindings[k]
               = FindingAt(captureHtml, first, Trim(captureHtml[first].text))

\* Scenario 4: two icons "ERRORS: Missing form label", the first followed by
\* an input, give one finding: actionable, Details tab, the input as element.
C10_Witness ==
  /\ pc = "jira:done"
  /\ captureHtml = <<Icon(CaptureText.MissingLabel), Tag(CaptureText.InputTag), Icon(CaptureText.MissingLabel)>>
  /\ Len(captureFindings) = 1
  /\ captureFindings[1].category = WaveText.ERROR \o <<"S">>
  /\ captureFindings[1].tab = "Details"
  /\ captureFindings[1].elementInfo = Defined(CaptureText.InputTag)
  /\ IsActionableFinding(captureFindings[1].category)
  /\ \E k \in 1..Len(jiraIssues) :
       jiraIssues[k].tab = "Details" /\ jiraIssues[k].actionable

----------------------------------------------------------------------------
(* WCAG reference lookup: getWcagRefForFinding as its callers use it       *)

MaxRefWords == 2

\* Words a WAVE description is made of: two that make a table key when
\* adjacent, four that only the fallbacks know, and two no rule knows.
RefWords ==
  { <<"E", "m", "p", "t", "y">>,
    <<"l", "i", "n", "k">>,
    <<"H", "e", "a", "d", "i", "n", "g">>,
    <<"l", "a", "b", "e", "l">>,
    <<"i", "m", "a", "g", "e">>,
    <<"a", "l", "t">>,
    <<"D", "e", "c", "o", "r", "a", "t", "i", "v", "e">>,
    <<"r", "e", "g", "i", "o", "n">> }

RefCategories ==
  { <<"E", "r", "r", "o", "r", "s">>,
    <<"C", "o", "n", "t", "r", "a", "s", "t", " ", "E", "r", "r", "o", "r", "s">>,
    <<"A", "R", "I", "A">>,
    <<"F", "e", "a", "t", "u", "r", "e", "s">>,
    <<>> }

\* A (description, category) pair a caller can pass: both are strings.
IsRefQuery(q) ==
  \E n \in 0..MaxRefWords : \E w \in [1..n -> RefWords] : \E c \in RefCategories :
    q = [description |-> Join(w, WaveText.Space), category |-> c]

\* A caller asks for the reference of one finding.
LookupWcagRef ==
  /\ pc = "ref:asked"
  /\ refResult' = [returned |-> TRUE,
                   ref |-> GetWcagRefForFinding(refQuery.description, refQuery.category)]
  /\ pc' = "ref:answered"
  /\ UNCHANGED <<refQuery, axeVars, treeVars, lhVars, waveVars, gateVars, batchVars, cardVars,
            strictVars, scanVars, waveApiVars, chromeVars>>

\* C11: getWcagRefForFinding is total: for every description and category
\* it returns either null or a reference of the table, and a reference it
\* returns always cites at least one criterion, each a non-empty text.
C11_LookupTotalAndNeverEmpty ==
  pc = "ref:answered" =>
    /\ refResult.returned
    /\ \/ refResult.ref = NoWcagRef
       \/ /\ refResult.ref.found
          /\ \E k \in 1..Len(WAVE_WCAG_REF) :
               /\ WAVE_WCAG_REF[k].key = refResult.ref.key
               /\ WAVE_WCAG_REF[k].criteria = refResult.ref.criteria
          /\ Len(refResult.ref.criteria) >= 1
          /\ \A i \in 1..Len(refResult.ref.criteria) : refResult.ref.criteria[i] # <<>>

\* A description no key matches is answered by a fallback rule.
C11_Witness ==
  /\ pc = "ref:answered"
  /\ refQuery = [description |-> <<"H", "e", "a", "d", "i", "n", "g">>, category |-> <<"E", "r", "r", "o", "r", "s">>]
  /\ refResult.ref.found
  /\ refResult.ref.key = <<"h", "e", "a", "d", "i", "n", "g", " ", "l", "e", "v", "e", "l">>
  /\ Len(refResult.ref.criteria) = 2

----------------------------------------------------------------------------
(* Pipeline gate: scripts/run-lighthouse-gate.ts and the Playwright test   *)
(* tests/accessibility-module.spec.ts                                      *)

\* Failed audits of the accessibility category, counted from the report
\* itself: the findings the gate's scan has to produce.
FailedAuditRefs(lhr) ==
  IF lhr.hasCategory
    THEN {i \in 1..Len(lhr.auditRefs) :
            /\ lhr.audits[lhr.auditRefs[i]].present
            /\ lhr.audits[lhr.auditRefs[i]].score \in {"0", "null"}}
    ELSE {}

\* Mutant of GateExitCode: the gate never blocks.
GateAlwaysPasses(failed) == 0

\* if (failed > 0) process.exit(1); ... process.exit(0)
GateExitCode(failed) == IF failed > 0 THEN 1 ELSE 0

\* run-lighthouse-gate.ts, main and its .catch: runLighthouseScan rejects
\* when Chrome or the auditor fails or the runner returns no report.
RunLighthouseGate ==
  /\ pc = "gate:start"
  /\ gateRun.entry = "lighthouse-gate"
  /\ IF gateRun.scanRejects \/ ~lhRun.present
       THEN /\ gateExit' = [exited |-> TRUE, scanned |-> FALSE, findings |-> 0, code |-> 1]
            /\ UNCHANGED lhResult
       ELSE LET result == NormalizeLhrToResult(lhRun.lhr, BuildTagMapFromArtifacts(lhRun.artifacts))
            IN  /\ lhResult' = result
                /\ gateExit' = [exited |-> TRUE, scanned |-> TRUE,
                                findings |-> Len(result.issues),
                                code |-> GateExitCode(Len(result.issues))]
  /\ pc' = "gate:exited"
  /\ UNCHANGED <<gateRun, lhRun, axeVars, treeVars, waveVars, refVars, batchVars, cardVars,
            strictVars, scanVars, waveApiVars, chromeVars>>

\* The Playwright test: expect(results.violations).toHaveLength(0); the
\* runner exits 1 when the expectation fails or runAxeScan rejects.
RunAxeGateTest ==
  /\ pc = "gate:start"
  /\ gateRun.entry = "axe-test"
  /\ IF gateRun.scanRejects
       THEN gateExit' = [exited |-> TRUE, scanned |-> FALSE, findings |-> 0, code |-> 1]
       ELSE gateExit' = [exited |-> TRUE, scanned |-> TRUE,
                         findings |-> Len(axeData.violations),
                         code |-> GateExitCode(Len(axeData.violations))]
  /\ pc' = "gate:exited"
  /\ UNCHANGED <<gateRun, axeVars, treeVars, lhVars, waveVars, refVars, batchVars, cardVars,
            strictVars, scanVars, waveApiVars, chromeVars>>

\* Findings the scan of this run produced: none when it rejected.
GateFindings ==
  IF ~gateExit.scanned THEN 0
  ELSE IF gateRun.entry = "lighthouse-gate" THEN Cardinality(FailedAuditRefs(lhRun.lhr))
  ELSE Len(axeData.violations)

\* The claim as written: on every run the gate exits non-zero if and only
\* if the scan produced at least one actionable finding.
C12_NonZeroIffFinding ==
  pc = "gate:exited" => (gateExit.code # 0 <=> GateFindings >= 1)

\* C12: when the scan completes, the gate exits 1 if it produced at least
\* one actionable finding and 0 if it produced none; when the scan itself
\* fails the gate exits 1 although no finding was produced.
C12_NonZeroIffFindingOrScanFailure ==
  pc = "gate:exited" =>
    /\ gateExit.exited
    /\ gateExit.code \in {0, 1}
    /\ gateExit.scanned => (gateExit.code # 0 <=> GateFindings >= 1)
    /\ ~gateExit.scanned => gateExit.code = 1
    /\ gateExit.scanned <=>
         /\ ~gateRun.scanRejects
         /\ gateRun.entry = "lighthouse-gate" => lhRun.present

\* A completed audit with one failed and one passed audit blocks the build.
C12_Witness ==
  /\ pc = "gate:exited"
  /\ gateRun.entry = "lighthouse-gate"
  /\ gateExit.scanned
  /\ Len(lhRun.lhr.auditRefs) = 2
  /\ GateFindings = 1
  /\ gateExit.code = 1

----------------------------------------------------------------------------
(* Batch runner: scripts/run-a11y.ts with engines/wave-engine.ts and the   *)
(* capability check of runA11yTreeScan                                     *)

MaxUrls == 2

UrlPool == {"https://a.example", "https://b.example"}

\* [...new Set(urls)]: the first occurrence of every URL, in input order
RECURSIVE DedupUrls(_)
DedupUrls(list) ==
  IF list = <<>> THEN <<>>
  ELSE LET front == DedupUrls(SubSeq(list, 1, Len(list) - 1))
           last  == list[Len(list)]
       IN  IF \E i \in 1..Len(front) : front[i] = last THEN front
           ELSE Append(front, last)

\* runAxe, runWave, runTree, runLighthouse of main
EngineFlags(engineChoice) ==
  [ runAxe        |-> engineChoice = "axe" \/ engineChoice = "both",
    runWave       |-> engineChoice = "wave",
    runTree       |-> engineChoice = "tree" \/ engineChoice = "both" \/ engineChoice = "axe",
    runLighthouse |-> engineChoice = "lighthouse" ]

Call(name)   == [kind |-> "call", name |-> name]
Push(engine) == [kind |-> "push", name |-> engine]

\* Mutant of TreeScanSteps: the tree is requested without asking the
\* backend whether it speaks CDP.
TreeScanStepsUnchecked ==
  << Call("context.newCDPSession"), Call("Accessibility.enable"),
     Call("Accessibility.getFullAXTree"), Call("walk") >>

\* runA11yTreeScan in the order of its statements
TreeScanSteps ==
  << Call("typeof newCDPSession"), Call("context.newCDPSession"),
     Call("Accessibility.enable"), Call("Accessibility.getFullAXTree"),
     Call("walk") >>

\* The statements of the three try blocks of one loop iteration, in order;
\* a block the engine choice does not select is empty.
BlockSteps(flags) ==
  [ browser |->
      IF flags.runAxe \/ flags.runTree
        THEN << Call("browser.newContext"), Call("context.newPage") >>
             \o (IF flags.runTree /\ ~flags.runAxe THEN << Call("page.goto") >> ELSE <<>>)
             \o (IF flags.runAxe
                   THEN << Call("runAxeScan"), Call("generateReport Axe-core -all"),
                           Call("generateReport Axe-core -actionable"), Push("Axe-core") >>
                   ELSE <<>>)
             \o (IF flags.runTree
                   THEN TreeScanSteps
                        \o << Call("generateReport A11y Tree"), Push("A11y Tree") >>
                   ELSE <<>>)
             \o << Call("context.close") >>
        ELSE <<>>,
    lighthouse |->
      IF flags.runLighthouse
        THEN << Call("runLighthouseScan"), Call("generateReport Lighthouse"),
                Push("Lighthouse") >>
        ELSE <<>>,
    wave |->
      IF flags.runWave
        THEN << Call("WAVE_API_KEY"), Call("fetch"), Call("res.ok"),
                Call("data.status.success"), Call("categories.error/contrast.count"),
                Call("generateReport WAVE API"), Push("WAVE API") >>
        ELSE <<>> ]

\* The indices of steps at which this iteration's block can stop: 0 is
\* "nothing throws".  The table pushes and the walk over the snapshot
\* never throw; the typeof test throws exactly on a backend without CDP,
\* where the block therefore stops there or earlier.
FaultPoints(steps, backend) ==
  LET free  == {i \in 1..Len(steps) :
                  /\ steps[i].kind = "call"
                  /\ steps[i].name \notin {"typeof newCDPSession", "walk"}}
      check == {i \in 1..Len(steps) : steps[i] = Call("typeof newCDPSession")}
  IN  IF backend = "no-cdp" /\ check # {}
        THEN {i \in free : \A c \in check : i < c} \cup check
        ELSE {0} \cup free

\* Mutant of ErrorMessage: every failure reads the same.
ErrorMessageLost(step) == "error"

\* err.message, cut as the row shows it
ErrorMessage(step) ==
  CASE step = Call("typeof newCDPSession") -> "A11y Tree engine requires Chromium (CDP)"
    [] step = Call("WAVE_API_KEY") -> "WAVE_API_KEY environment variable is required"
    [] step = Call("res.ok") -> "WAVE API HTTP"
    [] step = Call("data.status.success") -> "WAVE API request failed."
    [] step = Call("categories.error/contrast.count") -> "WAVE failures"
    [] OTHER -> "error"

\* The status a successful scan is given in the table
StatusOf(engine, findings) ==
  CASE engine = "Axe-core"   -> IF findings THEN "Fail" ELSE "Pass"
    [] engine = "A11y Tree"  -> IF findings THEN "Issues" ELSE "Pass"
    [] engine = "Lighthouse" -> IF findings THEN "failed" ELSE "Score"
    [] engine = "WAVE API"   -> "Pass"

\* One try block with its catch: the statements run up to the one that
\* throws, the rows pushed on the way, and the rows the catch pushes for
\* catchEngines.
TryBlock(url, steps, fault, findings, catchEngines, payload) ==
  LET executed == IF fault = 0 THEN steps ELSE SubSeq(steps, 1, fault)
      IsCall(i) == executed[i].kind = "call"
      calls    == SelectSeq([i \in 1..Len(executed) |-> i], IsCall)
      IsPush(i) == executed[i].kind = "push"
      pushes   == SelectSeq([i \in 1..Len(executed) |-> i], IsPush)
  IN  [ events |-> [k \in 1..Len(calls) |->
                      [ url    |-> url,
                        step   |-> executed[calls[k]].name,
                        result |-> IF calls[k] = fault THEN "threw" ELSE "ok",
                        data   |-> IF \/ executed[calls[k]] = Call("generateReport WAVE API")
                                      \/ /\ executed[calls[k]] = Call("categories.error/contrast.count")
                                         /\ calls[k] = fault
                                     THEN payload ELSE [present |-> FALSE] ]],
        rows   |-> [k \in 1..Len(pushes) |->
                      [ url    |-> url,
                        engine |-> executed[pushes[k]].name,
                        status |-> StatusOf(executed[pushes[k]].name, findings) ]]
                   \o (IF fault = 0 THEN <<>>
                       ELSE [k \in 1..Len(catchEngines) |->
                               [ url    |-> url,
                                 engine |-> catchEngines[k],
                                 status |-> "Fail: " \o ErrorMessage(steps[fault]) ]]) ]

\* main up to the loop: collectUrls (which prompts when no URL was given),
\* the exit for an empty list, and the browser launch, whose rejection
\* leaves main through its .catch.
StartBatch ==
  /\ pc = "batch:start"
  /\ \E answer \in UrlPool \cup {""} : \E launches \in BOOLEAN :
       LET given == DedupUrls(batchArgs.urls)
           list  == IF given # <<>> THEN given
                    ELSE IF answer # "" THEN <<answer>> ELSE <<>>
           flags == EngineFlags(batchArgs.engine)
       IN  /\ given # <<>> => answer = ""
           /\ (list = <<>> \/ ~(flags.runAxe \/ flags.runTree)) => launches
           /\ urls' = list
           /\ IF list = <<>> \/ ~launches
                THEN /\ pc' = "batch:exited"
                     /\ batchExit' = [exited |-> TRUE, code |-> 1, tablePrinted |-> FALSE,
                                      stage |-> IF list = <<>> THEN "collectUrls" ELSE "launch"]
                ELSE /\ pc' = "batch:loop"
                     /\ UNCHANGED batchExit
  /\ UNCHANGED <<batchArgs, urlIndex, table, scanLog>>
  /\ UNCHANGED <<axeVars, treeVars, lhVars, waveVars, refVars, gateVars, cardVars,
            strictVars, scanVars, waveApiVars, chromeVars>>

\* One iteration of "for (const url of urls)": the browser block, the
\* Lighthouse block and the WAVE block with their catch clauses.  Only the
\* failure report written inside the WAVE catch is outside every try.
ProcessUrl ==
  /\ pc = "batch:loop"
  /\ urlIndex < Len(urls)
  /\ LET url   == urls[urlIndex + 1]
         flags == EngineFlags(batchArgs.engine)
         steps == BlockSteps(flags)
     IN  \E fb \in FaultPoints(steps.browser, batchArgs.backend) :
         \E fl \in FaultPoints(steps.lighthouse, batchArgs.backend) :
         \E fw \in FaultPoints(steps.wave, batchArgs.backend) :
         \E findings \in BOOLEAN :
         \E errorCount \in 0..1 : \E contrastCount \in 0..1 :
         \E failureReportThrows \in BOOLEAN :
           LET withData == fw # 0 /\ steps.wave[fw] = Call("categories.error/contrast.count")
               payload  == [present |-> TRUE, errors |-> errorCount, contrast |-> contrastCount]
               browser  == TryBlock(url, steps.browser, fb, findings,
                                    (IF flags.runAxe THEN <<"Axe-core">> ELSE <<>>)
                                    \o (IF flags.runTree THEN <<"A11y Tree">> ELSE <<>>),
                                    [present |-> FALSE])
               lh       == TryBlock(url, steps.lighthouse, fl, findings, <<"Lighthouse">>,
                                    [present |-> FALSE])
               wave     == TryBlock(url, steps.wave, fw, findings, <<"WAVE API">>, payload)
               failureReport ==
                 IF withData
                   THEN << [ url    |-> url,
                             step   |-> "generateReport WAVE API (failure)",
                             result |-> IF failureReportThrows THEN "threw" ELSE "ok",
                             data   |-> payload ] >>
                   ELSE <<>>
           IN  /\ withData <=> (errorCount > 0 \/ contrastCount > 0)
               /\ ~withData => ~failureReportThrows
               /\ table' = table \o browser.rows \o lh.rows \o wave.rows
               /\ scanLog' = scanLog \o browser.events \o lh.events \o wave.events
                                     \o failureReport
               /\ IF failureReportThrows
                    THEN /\ pc' = "batch:exited"
                         /\ batchExit' = [exited |-> TRUE, code |-> 1, tablePrinted |-> FALSE,
                                          stage |-> "loop"]
                         /\ UNCHANGED urlIndex
                    ELSE /\ pc' = "batch:loop"
                         /\ urlIndex' = urlIndex + 1
                         /\ UNCHANGED batchExit
  /\ UNCHANGED <<batchArgs, urls>>
  /\ UNCHANGED <<axeVars, treeVars, lhVars, waveVars, refVars, gateVars, cardVars,
            strictVars, scanVars, waveApiVars, chromeVars>>

\* After the loop: the browser is closed and the table is printed.
PrintTable ==
  /\ pc = "batch:loop"
  /\ urlIndex = Len(urls)
  /\ pc' = "batch:printed"
  /\ batchExit' = [exited |-> TRUE, code |-> 0, tablePrinted |-> TRUE, stage |-> "table"]
  /\ UNCHANGED <<batchArgs, urls, urlIndex, table, scanLog>>
  /\ UNCHANGED <<axeVars, treeVars, lhVars, waveVars, refVars, gateVars, cardVars,
            strictVars, scanVars, waveApiVars, chromeVars>>

----------------------------------------------------------------------------
(* Batch runner: properties                                                *)

\* The URLs the log names, in the order the loop turned to them
RECURSIVE LogUrls(_)
LogUrls(log) ==
  IF log = <<>> THEN <<>>
  ELSE LET front == LogUrls(SubSeq(log, 1, Len(log) - 1))
           u     == log[Len(log)].url
       IN  IF front # <<>> /\ front[Len(front)] = u THEN front ELSE Append(front, u)

\* The batch is over and its loop was entered
BatchLoopEnded ==
  pc \in {"batch:printed", "batch:exited"} /\ batchExit.stage \in {"loop", "table"}

HasRow(url, engine, statuses) ==
  \E k \in 1..Len(table) :
    table[k].url = url /\ table[k].engine = engine /\ table[k].status \in statuses

FailStatuses ==
  { "Fail: " \o ErrorMessage(Call(name)) :
      name \in {"typeof newCDPSession", "WAVE_API_KEY", "res.ok", "data.status.success",
                "categories.error/contrast.count", "other"} }

\* The engine whose try block made the call
EngineOfStep(step) ==
  IF \E i \in 1..Len(BlockSteps(EngineFlags("wave")).wave) :
       BlockSteps(EngineFlags("wave")).wave[i].name = step THEN {"WAVE API"}
  ELSE IF \E i \in 1..Len(BlockSteps(EngineFlags("lighthouse")).lighthouse) :
       BlockSteps(EngineFlags("lighthouse")).lighthouse[i].name = step THEN {"Lighthouse"}
  ELSE IF step = "generateReport WAVE API (failure)" THEN {"WAVE API"}
  ELSE (IF EngineFlags(batchArgs.engine).runAxe THEN {"Axe-core"} ELSE {})
       \cup (IF EngineFlags(batchArgs.engine).runTree THEN {"A11y Tree"} ELSE {})

\* C13, as the claim states it: every URL of the de-duplicated list is
\* attempted exactly once, one at a time and in input order, whatever
\* failed while an earlier URL was scanned or reported, and every such
\* failure is recorded as a failed row.
C13_EveryUrlAttemptedOnceInOrder ==
  BatchLoopEnded =>
    /\ urls = DedupUrls(urls)
    /\ LogUrls(scanLog) = urls
    /\ \A k \in 1..Len(scanLog) :
         scanLog[k].result = "threw" =>
           \A engine \in EngineOfStep(scanLog[k].step) :
             HasRow(scanLog[k].url, engine, FailStatuses)

\* The scan of the first URL ends with errors counted, the report of the
\* payload cannot be written, and the second URL is never scanned.
C13_Witness ==
  /\ pc = "batch:exited"
  /\ batchArgs.engine = "wave"
  /\ Len(urls) = 2
  /\ LogUrls(scanLog) = <<urls[1]>>
  /\ HasRow(urls[1], "WAVE API", {"Fail: WAVE failures"})
  /\ scanLog[Len(scanLog)].step = "generateReport WAVE API (failure)"
  /\ scanLog[Len(scanLog)].result = "threw"
  /\ ~batchExit.tablePrinted

\* The statements of runWaveScan
WaveScanSteps ==
  {"WAVE_API_KEY", "fetch", "res.ok", "data.status.success", "categories.error/contrast.count"}

TreeScanWork ==
  {"context.newCDPSession", "Accessibility.enable", "Accessibility.getFullAXTree",
   "walk", "generateReport A11y Tree"}

SelectedEngines ==
  LET flags == EngineFlags(batchArgs.engine)
  IN  (IF flags.runAxe THEN {"Axe-core"} ELSE {})
      \cup (IF flags.runTree THEN {"A11y Tree"} ELSE {})
      \cup (IF flags.runLighthouse THEN {"Lighthouse"} ELSE {})
      \cup (IF flags.runWave THEN {"WAVE API"} ELSE {})

RowsOf(url, engine) ==
  {k \in 1..Len(table) : table[k].url = url /\ table[k].engine = engine}

\* C18, as the claim states it: the printed table holds exactly one row
\* for every pair of a URL of the list and a selected engine, and no other
\* row.
C18_OneRowPerUrlAndEngine ==
  pc = "batch:printed" =>
    /\ \A i \in 1..Len(urls) : \A engine \in SelectedEngines :
         Cardinality(RowsOf(urls[i], engine)) = 1
    /\ \A k \in 1..Len(table) :
         /\ table[k].engine \in SelectedEngines
         /\ \E i \in 1..Len(urls) : table[k].url = urls[i]

\* The Axe scan of a URL passes and is given its row, then the tree scan
\* throws: the catch adds a second Axe-core row for the same URL.
C18_Witness ==
  /\ pc = "batch:printed"
  /\ batchArgs.engine = "both"
  /\ Len(urls) = 1
  /\ table = << [url |-> urls[1], engine |-> "Axe-core", status |-> "Pass"],
               [url |-> urls[1], engine |-> "Axe-core", status |-> "Fail: error"],
               [url |-> urls[1], engine |-> "A11y Tree", status |-> "Fail: error"] >>

\* The calls of generateReport
ReportSteps ==
  {"generateReport Axe-core -all", "generateReport Axe-core -actionable",
   "generateReport A11y Tree", "generateReport Lighthouse",
   "generateReport WAVE API", "generateReport WAVE API (failure)"}

\* C19, as the claim states it: with --engine axe only the Axe scan runs
\* for a URL, the two Axe reports are its only reports, and the table has
\* no row of another engine.
C19_AxeOnlyRunsAxe ==
  batchArgs.engine = "axe" =>
    /\ \A k \in 1..Len(scanLog) :
         scanLog[k].step \notin TreeScanWork \cup {"typeof newCDPSession"}
                                 \cup {"runLighthouseScan", "generateReport Lighthouse"}
                                 \cup WaveScanSteps \cup {"generateReport WAVE API"}
    /\ \A k \in 1..Len(table) : table[k].engine = "Axe-core"
    /\ \A i \in 1..Len(urls) :
         HasRow(urls[i], "Axe-core", {"Pass", "Fail"}) =>
           {scanLog[k].step : k \in {n \in 1..Len(scanLog) :
                                       /\ scanLog[n].url = urls[i]
                                       /\ scanLog[n].result = "ok"
                                       /\ scanLog[n].step \in ReportSteps}}
             = {"generateReport Axe-core -all", "generateReport Axe-core -actionable"}

\* --engine axe on one URL without any failure: the tree is requested and
\* walked, a third report is written and the table has an A11y Tree row.
C19_Witness ==
  /\ pc = "batch:printed"
  /\ batchArgs.engine = "axe"
  /\ batchArgs.backend = "cdp"
  /\ Len(urls) = 1
  /\ \A k \in 1..Len(scanLog) : scanLog[k].result = "ok"
  /\ \E k \in 1..Len(scanLog) : scanLog[k].step = "Accessibility.getFullAXTree"
  /\ \E k \in 1..Len(scanLog) : scanLog[k].step = "generateReport A11y Tree"
  /\ table = << [url |-> urls[1], engine |-> "Axe-core", status |-> "Pass"],
               [url |-> urls[1], engine |-> "A11y Tree", status |-> "Pass"] >>

\* A browser context was opened by event k of the log
OpensContext(k) ==
  scanLog[k].step = "browser.newContext" /\ scanLog[k].result = "ok"

\* The context opened by event k was closed by event m
ClosesContext(k, m) ==
  /\ k < m
  /\ scanLog[m].step = "context.close"
  /\ scanLog[m].result = "ok"
  /\ scanLog[m].url = scanLog[k].url

\* C25, as the claim states it: the context opened for a URL is closed
\* before anything is done for the next URL, whether or not a scan or a
\* report of that URL threw, so contexts of two URLs are never open
\* together, and no context is open when the loop has ended.
C25_ContextClosedBeforeNextUrl ==
  /\ \A k \in 1..Len(scanLog) : \A j \in 1..Len(scanLog) :
       (OpensContext(k) /\ k < j /\ scanLog[j].url # scanLog[k].url) =>
         \E m \in 1..Len(scanLog) : ClosesContext(k, m) /\ m < j
  /\ BatchLoopEnded =>
       \A k \in 1..Len(scanLog) :
         OpensContext(k) => \E m \in 1..Len(scanLog) : ClosesContext(k, m)

\* Two URLs: the scan of the first throws on its open context, which
\* nothing closes, and a context is opened for the second.
C25_Witness ==
  /\ Len(urls) = 2
  /\ \E k \in 1..Len(scanLog) : \E f \in 1..Len(scanLog) : \E j \in 1..Len(scanLog) :
       /\ OpensContext(k)
       /\ scanLog[k].url = urls[1]
       /\ k < f
       /\ scanLog[f].url = urls[1]
       /\ scanLog[f].step = "runAxeScan"
       /\ scanLog[f].result = "threw"
       /\ f < j
       /\ OpensContext(j)
       /\ scanLog[j].url = urls[2]
       /\ \A m \in 1..Len(scanLog) : ~ClosesContext(k, m)

\* The first statement of each scan function
ScanEntry == {"runAxeScan", "typeof newCDPSession"}

\* C26, as the claim states it: at most one scan function runs between the
\* opening of a context and its closing; the second engine's scan of a URL
\* starts only after the first engine's context is closed and a fresh one
\* is opened.
C26_OneScanPerContext ==
  \A j \in 1..Len(scanLog) : \A k \in 1..Len(scanLog) :
    ( /\ j < k
      /\ scanLog[j].url = scanLog[k].url
      /\ scanLog[j].step \in ScanEntry
      /\ scanLog[k].step \in ScanEntry ) =>
      \E m \in 1..Len(scanLog) : \E n \in 1..Len(scanLog) :
        /\ j < m /\ m < n /\ n < k
        /\ scanLog[m].step = "context.close"
        /\ OpensContext(n)

\* --engine both on one URL, nothing throws: one context is opened, the
\* rule-engine scan and the tree scan both run on its page, and it is
\* closed once, after both.
C26_Witness ==
  /\ pc = "batch:printed"
  /\ batchArgs.engine = "both"
  /\ Len(urls) = 1
  /\ \A k \in 1..Len(scanLog) : scanLog[k].result = "ok"
  /\ Cardinality({k \in 1..Len(scanLog) : OpensContext(k)}) = 1
  /\ \E a \in 1..Len(scanLog) : \E t \in 1..Len(scanLog) :
       /\ scanLog[a].step = "runAxeScan"
       /\ scanLog[t].step = "Accessibility.getFullAXTree"
       /\ a < t
       /\ \A m \in 1..Len(scanLog) : scanLog[m].step = "context.close" => t < m

----------------------------------------------------------------------------
(* Finding cards: sec and the issue cards of generateReport                *)
(* (utils/reporter.ts) and of buildJiraReportHtml                          *)
(* (scripts/wave-capture-to-jira.ts)                                       *)

\* Literal texts of the card builders.  A text is a sequence of characters;
\* "U+2014" is the em dash, "U+2026" the ellipsis and "U+00B7" the middle
\* dot, each one character.
CardText ==
  [
    Dash       |-> <<"U+2014">>,
    Ellipsis   |-> <<"U+2026">>,
    Code       |-> <<"<", "c", "o", "d", "e", ">">>,
    CodeEnd    |-> <<"<", "/", "c", "o", "d", "e", ">">>,
    Br         |-> <<"<", "b", "r", "/", ">">>,
    Comma      |-> <<",", " ">>,
    Semi       |-> <<";", " ">>,
    Dot        |-> <<" ", "U+00B7", " ">>,
    See        |-> <<" ", "S", "e", "e", ":", " ">>,
    SeeDocs    |-> <<" ", "S", "e", "e", " ", "L", "i", "g", "h", "t", "h",
                  "o", "u", "s", "e", " ", "a", "c", "c", "e", "s", "s",
                  "i", "b", "i", "l", "i", "t", "y", " ", "d", "o", "c",
                  "s", " ", "f", "o", "r", " ", "t", "h", "i", "s", " ",
                  "a", "u", "d", "i", "t", ".">>,
    NoName     |-> <<"N", "o", " ", "a", "c", "c", "e", "s", "s", "i", "b",
                  "l", "e", " ", "n", "a", "m", "e">>,
    SeeTree    |-> <<"U+2014", " ", "(", "s", "e", "e", " ", "t", "r", "e",
                  "e", " ", "/", " ", "p", "a", "g", "e", " ", "f", "o",
                  "r", " ", "c", "o", "n", "t", "e", "x", "t", ")">>,
    SeeOverlay |-> <<"S", "e", "e", " ", "W", "A", "V", "E", " ", "o", "v",
                  "e", "r", "l", "a", "y", " ", "o", "n", " ", "c", "a",
                  "p", "t", "u", "r", "e", " ", "f", "o", "r", " ", "h",
                  "i", "g", "h", "l", "i", "g", "h", "t", "e", "d", " ",
                  "e", "l", "e", "m", "e", "n", "t", "(", "s", ")", ".">>,
    WaveTab    |-> <<"W", "A", "V", "E", " ", "t", "a", "b", ":", " ">>,
    Issue      |-> <<"I", "s", "s", "u", "e", " ">>,
    FixPerWave |-> <<"F", "i", "x", " ", "p", "e", "r", " ", "W", "A", "V",
                  "E", " ", "r", "e", "c", "o", "m", "m", "e", "n", "d",
                  "a", "t", "i", "o", "n", " ", "a", "n", "d", " ", "W",
                  "C", "A", "G", " ", "c", "r", "i", "t", "e", "r", "i",
                  "a", ".", " ", "R", "e", "-", "r", "u", "n", " ", "W",
                  "A", "V", "E", " ", "t", "o", " ", "v", "e", "r", "i",
                  "f", "y", ".">>,
    Amp        |-> <<"&", "a", "m", "p", ";">>,
    Lt         |-> <<"&", "l", "t", ";">>,
    Gt         |-> <<"&", "g", "t", ";">>,
    Quot       |-> <<"&", "q", "u", "o", "t", ";">>,
    Cat        |-> <<"c", "a", "t", ".">>,
    Space      |-> <<" ">>,
    WavePrefix |-> <<"[", "W", "A", "V", "E", "]", "[">>,
    FixPerWcag |-> <<" ", "F", "i", "x", " ", "p", "e", "r", " ", "W", "C", "A", "G", ":", " ">>,
    Why        |-> <<"W", "h", "y", " ", "i", "t", " ", "f", "a", "i", "l", "s", ".">> ]

\* The section titles, in the order every card builder lists them
SectionTitles ==
  << "Title", "Description", "Element(s)", "Where located", "WCAG number",
     "WCAG cause of failure", "Actual", "Expected + proposed fix" >>

\* s.replace(/&/g,'&amp;').replace(/</g,'&lt;').replace(/>/g,'&gt;')
\*  .replace(/"/g,'&quot;')
EscapeHtml(t) ==
  Flatten([i \in 1..Len(t) |->
             CASE t[i] = "&"  -> CardText.Amp
               [] t[i] = "<"  -> CardText.Lt
               [] t[i] = ">"  -> CardText.Gt
               [] t[i] = "\"" -> CardText.Quot
               [] OTHER       -> <<t[i]>>])

\* String.prototype.slice(0, n)
Slice(t, n) == IF Len(t) > n THEN SubSeq(t, 1, n) ELSE t

\* value ?? fallback on an optional text
OrElse(value, fallback) == IF value.defined THEN value.text ELSE fallback

\* Mutant of Sec: every section is rendered, whatever its content.
SecAlwaysRenders(title, content) == << [title |-> title, content |-> content] >>

\* sec: no section when the trimmed content is empty or the em dash alone
Sec(title, content) ==
  LET v == Trim(content)
  IN  IF v = <<>> \/ v = CardText.Dash THEN <<>>
      ELSE << [title |-> title, content |-> v] >>

\* The sec of buildJiraReportHtml: the same test, the content escaped and
\* its line breaks turned into <br/>
JiraSec(title, content) ==
  LET v == Trim(content)
  IN  IF v = <<>> \/ v = CardText.Dash THEN <<>>
      ELSE << [title   |-> title,
               content |-> Flatten([i \in 1..Len(EscapeHtml(v)) |->
                                      IF EscapeHtml(v)[i] = "\n" THEN CardText.Br
                                      ELSE <<EscapeHtml(v)[i]>>])] >>

\* a || b where a is an optional text: undefined and the empty text are falsy
OrFalsy(value, fallback) ==
  IF value.defined /\ value.text # <<>> THEN value.text ELSE fallback

\* tags.filter((t) => /wcag|cat\./.test(t)).join(', ') || the em dash
WcagTagsToCriteria(tags) ==
  OrFalsy(
    Defined(Join(SelectSeq(tags, LAMBDA t : Includes(t, LhText.Wcag) \/ Includes(t, CardText.Cat)),
                 CardText.Comma)),
    CardText.Dash)

\* The "WCAG Tags" column of the rows of one rule-engine entry:
\* v.tags.join('; ')
CsvTagsColumn(v) == Join(v.tags, CardText.Semi)

\* The eight sections of one rule-engine card, each the output of Sec
AxeCardSections(v) ==
  LET TargetText(n) == IF n.target.defined
                       THEN Defined(Join(n.target.list, CardText.Space))
                       ELSE Undefined
      HtmlCode(n) ==
        IF n.html.defined /\ n.html.text # <<>>
        THEN CardText.Code \o EscapeHtml(Slice(n.html.text, 300))
             \o (IF Len(n.html.text) > 300 THEN CardText.Ellipsis ELSE <<>>)
             \o CardText.CodeEnd
        ELSE <<>>
      TargetCode(n) ==
        CardText.Code \o EscapeHtml(OrElse(TargetText(n), <<>>)) \o CardText.CodeEnd
      elementsSnippet ==
        OrFalsy(
          Defined(OrFalsy(Defined(Join(SelectSeq(Map(HtmlCode, v.nodes), LAMBDA t : t # <<>>),
                                       CardText.Br)),
                          Join(Map(TargetCode, v.nodes), CardText.Comma))),
          CardText.Dash)
      whereLocated ==
        OrFalsy(Defined(Join(Map(LAMBDA n : OrElse(TargetText(n), CardText.Dash), v.nodes),
                             CardText.Semi)),
                CardText.Dash)
      expectedFix ==
        OrElse(v.description, OrElse(v.help, <<>>))
        \o (IF v.helpUrl.defined /\ v.helpUrl.text # <<>>
            THEN CardText.See \o v.helpUrl.text ELSE <<>>)
  IN  [ wcagNum  |-> WcagTagsToCriteria(v.tags),
        sections |->
          Sec(SectionTitles[1], OrElse(v.help, v.id))
          \o Sec(SectionTitles[2], OrElse(v.description, OrElse(v.help, <<>>)))
          \o Sec(SectionTitles[3], elementsSnippet)
          \o Sec(SectionTitles[4], whereLocated)
          \o Sec(SectionTitles[5], WcagTagsToCriteria(v.tags))
          \o Sec(SectionTitles[6], OrElse(v.description, <<>>))
          \o Sec(SectionTitles[7], OrElse(v.help, <<>>))
          \o Sec(SectionTitles[8], expectedFix) ]

\* treeKindToWcag: the tree card's criteria by issue kind
TreeKindToWcag ==
  ("nameless-link" :> <<"2", ".", "4", ".", "4", ",", " ", "4", ".", "1", ".", "2">>) @@
  ("nameless-button" :> <<"2", ".", "1", ".", "1", ",", " ", "4", ".", "1", ".", "2">>) @@
  ("nameless-input" :> <<"1", ".", "3", ".", "1", ",", " ", "4", ".", "1", ".", "2">>) @@
  ("video-no-captions" :> <<"1", ".", "2", ".", "2">>) @@
  ("audio-no-transcript" :> <<"1", ".", "2", ".", "1">>) @@
  ("iframe-no-title" :> <<"2", ".", "4", ".", "1">>)

\* The eight sections of one accessibility-tree card.  The engine sets
\* summary on every issue, so i.summary ?? x is i.summary.
TreeCardSections(i) ==
  LET TreeKindToExpected ==
        ("nameless-link" :> <<"P", "r", "o", "v", "i", "d", "e", " ", "a", "c", "c", "e",
              "s", "s", "i", "b", "l", "e", " ", "n", "a", "m", "e", " ",
              "(", "v", "i", "s", "i", "b", "l", "e", " ", "t", "e", "x",
              "t", " ", "o", "r", " ", "a", "r", "i", "a", "-", "l", "a",
              "b", "e", "l", ")", " ", "s", "o", " ", "p", "u", "r", "p",
              "o", "s", "e", " ", "i", "s", " ", "c", "l", "e", "a", "r",
              " ", "t", "o", " ", "a", "s", "s", "i", "s", "t", "i", "v",
              "e", " ", "t", "e", "c", "h", ".">>) @@
        ("nameless-button" :> <<"P", "r", "o", "v", "i", "d", "e", " ", "a", "c", "c", "e",
              "s", "s", "i", "b", "l", "e", " ", "n", "a", "m", "e", " ",
              "(", "i", "n", "n", "e", "r", " ", "t", "e", "x", "t", " ",
              "o", "r", " ", "a", "r", "i", "a", "-", "l", "a", "b", "e",
              "l", ")", " ", "s", "o", " ", "p", "u", "r", "p", "o", "s",
              "e", " ", "i", "s", " ", "c", "l", "e", "a", "r", ".">>) @@
        ("nameless-input" :> <<"A", "s", "s", "o", "c", "i", "a", "t", "e", " ", "a", " ",
              "v", "i", "s", "i", "b", "l", "e", " ", "l", "a", "b", "e",
              "l", " ", "o", "r", " ", "u", "s", "e", " ", "a", "r", "i",
              "a", "-", "l", "a", "b", "e", "l", "/", "a", "r", "i", "a",
              "-", "l", "a", "b", "e", "l", "l", "e", "d", "b", "y", " ",
              "s", "o", " ", "t", "h", "e", " ", "f", "i", "e", "l", "d",
              " ", "i", "s", " ", "i", "d", "e", "n", "t", "i", "f", "i",
              "e", "d", ".">>) @@
        ("video-no-captions" :> <<"P", "r", "o", "v", "i", "d", "e", " ", "c", "a", "p", "t",
              "i", "o", "n", "s", " ", "f", "o", "r", " ", "v", "i", "d",
              "e", "o", ";", " ", "e", "n", "s", "u", "r", "e", " ", "c",
              "a", "p", "t", "i", "o", "n", "s", " ", "a", "r", "e", " ",
              "a", "v", "a", "i", "l", "a", "b", "l", "e", " ", "o", "r",
              " ", "d", "o", "c", "u", "m", "e", "n", "t", " ", "a", "s",
              " ", "d", "e", "c", "o", "r", "a", "t", "i", "v", "e", ".">>) @@
        ("audio-no-transcript" :> <<"P", "r", "o", "v", "i", "d", "e", " ", "a", " ", "t", "r",
              "a", "n", "s", "c", "r", "i", "p", "t", " ", "o", "r", " ",
              "d", "o", "c", "u", "m", "e", "n", "t", " ", "a", "s", " ",
              "d", "e", "c", "o", "r", "a", "t", "i", "v", "e", ".">>) @@
        ("iframe-no-title" :> <<"G", "i", "v", "e", " ", "t", "h", "e", " ", "i", "f", "r",
              "a", "m", "e", " ", "a", " ", "t", "i", "t", "l", "e", " ",
              "a", "t", "t", "r", "i", "b", "u", "t", "e", " ", "d", "e",
              "s", "c", "r", "i", "b", "i", "n", "g", " ", "i", "t", "s",
              " ", "c", "o", "n", "t", "e", "n", "t", ".">>)
      wcagNum     == IF i.kind \in DOMAIN TreeKindToWcag
                     THEN TreeKindToWcag[i.kind] ELSE CardText.Dash
      expectedFix == IF i.kind \in DOMAIN TreeKindToExpected
                     THEN TreeKindToExpected[i.kind] ELSE i.summary
      roleAndName == Join(SelectSeq(<<i.role, OrFalsy(i.name, <<>>)>>,
                                    LAMBDA t : t # <<>>),
                          CardText.Dot)
  IN  [ wcagNum  |-> wcagNum,
        sections |->
          Sec(SectionTitles[1], i.summary)
          \o Sec(SectionTitles[2], i.summary)
          \o Sec(SectionTitles[3], OrFalsy(Defined(roleAndName), CardText.Dash))
          \o Sec(SectionTitles[4], CardText.SeeTree)
          \o Sec(SectionTitles[5], wcagNum)
          \o Sec(SectionTitles[6], i.summary)
          \o Sec(SectionTitles[7], OrFalsy(Defined(roleAndName), CardText.NoName))
          \o Sec(SectionTitles[8], expectedFix) ]

\* lhAuditToWcag: the criteria the report shows for a scored audit, by id
LhAuditToWcag ==
  ("aria-valid-attr-value" :> <<"4", ".", "1", ".", "2">>) @@
  ("aria-valid-attr" :> <<"4", ".", "1", ".", "2">>) @@
  ("button-name" :> <<"2", ".", "1", ".", "1", ",", " ", "4", ".", "1", ".", "2">>) @@
  ("bypass" :> <<"2", ".", "4", ".", "1">>) @@
  ("color-contrast" :> <<"1", ".", "4", ".", "3">>) @@
  ("document-title" :> <<"2", ".", "4", ".", "2">>) @@
  ("duplicate-id-aria" :> <<"4", ".", "1", ".", "1">>) @@
  ("form-field-multiple-labels" :> <<"3", ".", "3", ".", "2">>) @@
  ("frame-title" :> <<"2", ".", "4", ".", "1">>) @@
  ("html-has-lang" :> <<"3", ".", "1", ".", "1">>) @@
  ("html-lang-valid" :> <<"3", ".", "1", ".", "1">>) @@
  ("image-alt" :> <<"1", ".", "1", ".", "1">>) @@
  ("input-image-alt" :> <<"1", ".", "1", ".", "1">>) @@
  ("label" :> <<"1", ".", "3", ".", "1", ",", " ", "4", ".", "1", ".", "2">>) @@
  ("link-name" :> <<"2", ".", "4", ".", "4", ",", " ", "4", ".", "1", ".", "2">>) @@
  ("list" :> <<"1", ".", "3", ".", "1">>) @@
  ("listitem" :> <<"1", ".", "3", ".", "1">>) @@
  ("meta-refresh" :> <<"2", ".", "2", ".", "1">>) @@
  ("meta-viewport" :> <<"1", ".", "4", ".", "4">>) @@
  ("object-alt" :> <<"1", ".", "1", ".", "1">>) @@
  ("tabindex" :> <<"2", ".", "4", ".", "3">>) @@
  ("td-headers-attr" :> <<"1", ".", "3", ".", "1">>) @@
  ("th-has-data-cells" :> <<"1", ".", "3", ".", "1">>) @@
  ("valid-aria-role" :> <<"4", ".", "1", ".", "2">>) @@
  ("video-caption" :> <<"1", ".", "2", ".", "2">>)

\* The eight sections of one scored-audit card
LhCardSections(issue) ==
  LET ItemCode(i) ==
        CardText.Code
        \o EscapeHtml(Slice(
              OrFalsy(i.snippet, OrFalsy(i.selector, OrFalsy(i.nodeLabel, CardText.Dash))),
              300))
        \o (IF i.snippet.defined /\ Len(i.snippet.text) > 300
            THEN CardText.Ellipsis ELSE <<>>)
        \o CardText.CodeEnd
      ItemPlace(i) ==
        OrFalsy(i.selector, OrFalsy(i.snippet, OrFalsy(i.nodeLabel, CardText.Dash)))
      elementsSnippet ==
        IF Len(issue.items) > 0 THEN Join(Map(ItemCode, issue.items), CardText.Br)
        ELSE CardText.Dash
      whereLocated ==
        IF Len(issue.items) > 0 THEN Join(Map(ItemPlace, issue.items), CardText.Semi)
        ELSE CardText.Dash
      wcagNum == IF issue.id \in DOMAIN LhAuditToWcag
                 THEN LhAuditToWcag[issue.id] ELSE CardText.Dash
  IN  [ wcagNum  |-> wcagNum,
        sections |->
          Sec(SectionTitles[1], issue.title)
          \o Sec(SectionTitles[2], issue.description)
          \o Sec(SectionTitles[3], elementsSnippet)
          \o Sec(SectionTitles[4], whereLocated)
          \o Sec(SectionTitles[5], wcagNum)
          \o Sec(SectionTitles[6], issue.description)
          \o Sec(SectionTitles[7], OrElse(issue.displayValue, issue.title))
          \o Sec(SectionTitles[8], issue.description \o CardText.SeeDocs) ]

----------------------------------------------------------------------------
(* WCAG dictionary: mapWcagTag, mapWcagTags, resolveWcagForLighthouseAudit *)
(* (utils/wcag-dictionary)                                                 *)

\* LIGHTHOUSE_AUDIT_WCAG: the criterion tags of a scored audit, by id
LIGHTHOUSE_AUDIT_WCAG ==
  ("accesskeys" :> <<<<"w", "c", "a", "g", "2", "4", "1">>>>) @@
  ("bypass" :> <<<<"w", "c", "a", "g", "2", "4", "1">>>>) @@
  ("document-title" :> <<<<"w", "c", "a", "g", "2", "4", "2">>>>) @@
  ("frame-title" :> <<<<"w", "c", "a", "g", "4", "1", "2">>, <<"w", "c", "a", "g", "2", "4", "1">>>>) @@
  ("skip-link" :> <<<<"w", "c", "a", "g", "2", "4", "1">>>>) @@
  ("tabindex" :> <<<<"w", "c", "a", "g", "2", "4", "3">>>>) @@
  ("aria-allowed-attr" :> <<<<"w", "c", "a", "g", "4", "1", "2">>>>) @@
  ("aria-allowed-role" :> <<<<"w", "c", "a", "g", "4", "1", "2">>>>) @@
  ("aria-command-name" :> <<<<"w", "c", "a", "g", "4", "1", "2">>>>) @@
  ("aria-conditional-attr" :> <<<<"w", "c", "a", "g", "4", "1", "2">>>>) @@
  ("aria-dialog-name" :> <<<<"w", "c", "a", "g", "4", "1", "2">>>>) @@
  ("aria-hidden-body" :> <<<<"w", "c", "a", "g", "4", "1", "2">>>>) @@
  ("aria-hidden-focus" :> <<<<"w", "c", "a", "g", "4", "1", "2">>>>) @@
  ("aria-input-field-name" :> <<<<"w", "c", "a", "g", "4", "1", "2">>>>) @@
  ("aria-meter-name" :> <<<<"w", "c", "a", "g", "4", "1", "2">>>>) @@
  ("aria-progressbar-name" :> <<<<"w", "c", "a", "g", "4", "1", "2">>>>) @@
  ("aria-prohibited-attr" :> <<<<"w", "c", "a", "g", "4", "1", "2">>>>) @@
  ("aria-required-attr" :> <<<<"w", "c", "a", "g", "4", "1", "2">>>>) @@
  ("aria-roles" :> <<<<"w", "c", "a", "g", "4", "1", "2">>>>) @@
  ("aria-text" :> <<<<"w", "c", "a", "g", "4", "1", "2">>>>) @@
  ("aria-toggle-field-name" :> <<<<"w", "c", "a", "g", "4", "1", "2">>>>) @@
  ("aria-tooltip-name" :> <<<<"w", "c", "a", "g", "4", "1", "2">>>>) @@
  ("aria-treeitem-name" :> <<<<"w", "c", "a", "g", "4", "1", "2">>>>) @@
  ("aria-valid-attr-value" :> <<<<"w", "c", "a", "g", "4", "1", "2">>>>) @@
  ("aria-valid-attr" :> <<<<"w", "c", "a", "g", "4", "1", "2">>>>) @@
  ("button-name" :> <<<<"w", "c", "a", "g", "4", "1", "2">>>>) @@
  ("input-button-name" :> <<<<"w", "c", "a", "g", "4", "1", "2">>>>) @@
  ("link-name" :> <<<<"w", "c", "a", "g", "4", "1", "2">>, <<"w", "c", "a", "g", "2", "4", "4">>>>) @@
  ("select-name" :> <<<<"w", "c", "a", "g", "4", "1", "2">>, <<"w", "c", "a", "g", "1", "3", "1">>>>) @@
  ("aria-required-children" :> <<<<"w", "c", "a", "g", "1", "3", "1">>>>) @@
  ("aria-required-parent" :> <<<<"w", "c", "a", "g", "1", "3", "1">>>>) @@
  ("definition-list" :> <<<<"w", "c", "a", "g", "1", "3", "1">>>>) @@
  ("dlitem" :> <<<<"w", "c", "a", "g", "1", "3", "1">>>>) @@
  ("heading-order" :> <<<<"w", "c", "a", "g", "1", "3", "1">>>>) @@
  ("empty-heading" :> <<<<"w", "c", "a", "g", "1", "3", "1">>>>) @@
  ("list" :> <<<<"w", "c", "a", "g", "1", "3", "1">>>>) @@
  ("listitem" :> <<<<"w", "c", "a", "g", "1", "3", "1">>>>) @@
  ("layout-table" :> <<<<"w", "c", "a", "g", "1", "3", "1">>>>) @@
  ("table-fake-caption" :> <<<<"w", "c", "a", "g", "1", "3", "1">>>>) @@
  ("td-has-header" :> <<<<"w", "c", "a", "g", "1", "3", "1">>>>) @@
  ("td-headers-attr" :> <<<<"w", "c", "a", "g", "1", "3", "1">>>>) @@
  ("th-has-data-cells" :> <<<<"w", "c", "a", "g", "1", "3", "1">>>>) @@
  ("form-field-multiple-labels" :> <<<<"w", "c", "a", "g", "3", "3", "2">>>>) @@
  ("label" :> <<<<"w", "c", "a", "g", "4", "1", "2">>, <<"w", "c", "a", "g", "1", "3", "1">>>>) @@
  ("html-has-lang" :> <<<<"w", "c", "a", "g", "3", "1", "1">>>>) @@
  ("html-lang-valid" :> <<<<"w", "c", "a", "g", "3", "1", "1">>>>) @@
  ("html-xml-lang-mismatch" :> <<<<"w", "c", "a", "g", "3", "1", "1">>>>) @@
  ("valid-lang" :> <<<<"w", "c", "a", "g", "3", "1", "1">>>>) @@
  ("meta-refresh" :> <<<<"w", "c", "a", "g", "2", "2", "1">>>>) @@
  ("meta-viewport" :> <<<<"w", "c", "a", "g", "1", "4", "4">>>>) @@
  ("color-contrast" :> <<<<"w", "c", "a", "g", "1", "4", "3">>>>) @@
  ("image-alt" :> <<<<"w", "c", "a", "g", "1", "1", "1">>>>) @@
  ("image-redundant-alt" :> <<<<"w", "c", "a", "g", "1", "1", "1">>>>) @@
  ("input-image-alt" :> <<<<"w", "c", "a", "g", "1", "1", "1">>>>) @@
  ("object-alt" :> <<<<"w", "c", "a", "g", "1", "1", "1">>>>) @@
  ("video-caption" :> <<<<"w", "c", "a", "g", "1", "2", "2">>>>) @@
  ("link-in-text-block" :> <<<<"w", "c", "a", "g", "1", "4", "1">>>>) @@
  ("identical-links-same-purpose" :> <<<<"w", "c", "a", "g", "2", "4", "4">>>>) @@
  ("target-size" :> <<<<"w", "c", "a", "g", "2", "5", "8">>>>) @@
  ("duplicate-id-active" :> <<<<"w", "c", "a", "g", "4", "1", "1">>>>) @@
  ("duplicate-id-aria" :> <<<<"w", "c", "a", "g", "4", "1", "1">>>>) @@
  ("table-duplicate-name" :> <<<<"w", "c", "a", "g", "1", "3", "1">>>>)

\* mapWcagTag: the label of the table, else "WCAG d.d.d" for wcagddd, else
\* the tag with - and _ turned into spaces and its words capitalised
MapWcagTag(tag) ==
  LET WCAG_TAG_MAP ==
        << [tag |-> <<"w", "c", "a", "g", "1", "1", "1">>,
            label |-> <<"W", "C", "A", "G", " ", "1", ".", "1", ".", "1", " ",
                        "N", "o", "n", "-", "t", "e", "x", "t", " ", "C", "o",
                        "n", "t", "e", "n", "t", " ", "(", "L", "e", "v", "e",
                        "l", " ", "A", ")">>],
           [tag |-> <<"w", "c", "a", "g", "1", "2", "1">>,
            label |-> <<"W", "C", "A", "G", " ", "1", ".", "2", ".", "1", " ",
                        "A", "u", "d", "i", "o", "-", "o", "n", "l", "y", " ",
                        "a", "n", "d", " ", "V", "i", "d", "e", "o", "-", "o",
                        "n", "l", "y", " ", "(", "P", "r", "e", "r", "e", "c",
                        "o", "r", "d", "e", "d", ")", " ", "(", "L", "e", "v",
                        "e", "l", " ", "A", ")">>],
           [tag |-> <<"w", "c", "a", "g", "1", "2", "2">>,
            label |-> <<"W", "C", "A", "G", " ", "1", ".", "2", ".", "2", " ",
                        "C", "a", "p", "t", "i", "o", "n", "s", " ", "(", "P",
                        "r", "e", "r", "e", "c", "o", "r", "d", "e", "d", ")",
                        " ", "(", "L", "e", "v", "e", "l", " ", "A", ")">>],
           [tag |-> <<"w", "c", "a", "g", "1", "3", "1">>,
            label |-> <<"W", "C", "A", "G", " ", "1", ".", "3", ".", "1", " ",
                        "I", "n", "f", "o", " ", "a", "n", "d", " ", "R", "e",
                        "l", "a", "t", "i", "o", "n", "s", "h", "i", "p", "s",
                        " ", "(", "L", "e", "v", "e", "l", " ", "A", ")">>],
           [tag |-> <<"w", "c", "a", "g", "1", "4", "1">>,
            label |-> <<"W", "C", "A", "G", " ", "1", ".", "4", ".", "1", " ",
                        "U", "s", "e", " ", "o", "f", " ", "C", "o", "l", "o",
                        "r", " ", "(", "L", "e", "v", "e", "l", " ", "A", ")">>],
           [tag |-> <<"w", "c", "a", "g", "1", "4", "3">>,
            label |-> <<"W", "C", "A", "G", " ", "1", ".", "4", ".", "3", " ",
                        "C", "o", "n", "t", "r", "a", "s", "t", " ", "(", "M",
                        "i", "n", "i", "m", "u", "m", ")", " ", "(", "L", "e",
                        "v", "e", "l", " ", "A", "A", ")">>],
           [tag |-> <<"w", "c", "a", "g", "1", "4", "4">>,
            label |-> <<"W", "C", "A", "G", " ", "1", ".", "4", ".", "4", " ",
                        "R", "e", "s", "i", "z", "e", " ", "T", "e", "x", "t",
                        " ", "(", "L", "e", "v", "e", "l", " ", "A", "A", ")">>],
           [tag |-> <<"w", "c", "a", "g", "2", "1", "1">>,
            label |-> <<"W", "C", "A", "G", " ", "2", ".", "1", ".", "1", " ",
                        "K", "e", "y", "b", "o", "a", "r", "d", " ", "(", "L",
                        "e", "v", "e", "l", " ", "A", ")">>],
           [tag |-> <<"w", "c", "a", "g", "2", "2", "1">>,
            label |-> <<"W", "C", "A", "G", " ", "2", ".", "2", ".", "1", " ",
                        "T", "i", "m", "i", "n", "g", " ", "A", "d", "j", "u",
                        "s", "t", "a", "b", "l", "e", " ", "(", "L", "e", "v",
                        "e", "l", " ", "A", ")">>],
           [tag |-> <<"w", "c", "a", "g", "2", "4", "1">>,
            label |-> <<"W", "C", "A", "G", " ", "2", ".", "4", ".", "1", " ",
                        "B", "y", "p", "a", "s", "s", " ", "B", "l", "o", "c",
                        "k", "s", " ", "(", "L", "e", "v", "e", "l", " ", "A",
                        ")">>],
           [tag |-> <<"w", "c", "a", "g", "2", "4", "2">>,
            label |-> <<"W", "C", "A", "G", " ", "2", ".", "4", ".", "2", " ",
                        "P", "a", "g", "e", " ", "T", "i", "t", "l", "e", "d",
                        " ", "(", "L", "e", "v", "e", "l", " ", "A", ")">>],
           [tag |-> <<"w", "c", "a", "g", "2", "4", "3">>,
            label |-> <<"W", "C", "A", "G", " ", "2", ".", "4", ".", "3", " ",
                        "F", "o", "c", "u", "s", " ", "O", "r", "d", "e", "r",
                        " ", "(", "L", "e", "v", "e", "l", " ", "A", ")">>],
           [tag |-> <<"w", "c", "a", "g", "2", "4", "4">>,
            label |-> <<"W", "C", "A", "G", " ", "2", ".", "4", ".", "4", " ",
                        "L", "i", "n", "k", " ", "P", "u", "r", "p", "o", "s",
                        "e", " ", "(", "I", "n", " ", "C", "o", "n", "t", "e",
                        "x", "t", ")", " ", "(", "L", "e", "v", "e", "l", " ",
                        "A", ")">>],
           [tag |-> <<"w", "c", "a", "g", "2", "5", "8">>,
            label |-> <<"W", "C", "A", "G", " ", "2", ".", "5", ".", "8", " ",
                        "T", "a", "r", "g", "e", "t", " ", "S", "i", "z", "e",
                        " ", "(", "M", "i", "n", "i", "m", "u", "m", ")", " ",
                        "(", "L", "e", "v", "e", "l", " ", "A", "A", ")">>],
           [tag |-> <<"w", "c", "a", "g", "3", "1", "1">>,
            label |-> <<"W", "C", "A", "G", " ", "3", ".", "1", ".", "1", " ",
                        "L", "a", "n", "g", "u", "a", "g", "e", " ", "o", "f",
                        " ", "P", "a", "g", "e", " ", "(", "L", "e", "v", "e",
                        "l", " ", "A", ")">>],
           [tag |-> <<"w", "c", "a", "g", "3", "3", "2">>,
            label |-> <<"W", "C", "A", "G", " ", "3", ".", "3", ".", "2", " ",
                        "L", "a", "b", "e", "l", "s", " ", "o", "r", " ", "I",
                        "n", "s", "t", "r", "u", "c", "t", "i", "o", "n", "s",
                        " ", "(", "L", "e", "v", "e", "l", " ", "A", ")">>],
           [tag |-> <<"w", "c", "a", "g", "4", "1", "1">>,
            label |-> <<"W", "C", "A", "G", " ", "4", ".", "1", ".", "1", " ",
                        "P", "a", "r", "s", "i", "n", "g", " ", "(", "L", "e",
                        "v", "e", "l", " ", "A", ")">>],
           [tag |-> <<"w", "c", "a", "g", "4", "1", "2">>,
            label |-> <<"W", "C", "A", "G", " ", "4", ".", "1", ".", "2", " ",
                        "N", "a", "m", "e", ",", " ", "R", "o", "l", "e", ",",
                        " ", "V", "a", "l", "u", "e", " ", "(", "L", "e", "v",
                        "e", "l", " ", "A", ")">>] >>
      key  == ToLowerCase(tag)
      hits == {k \in 1..Len(WCAG_TAG_MAP) : WCAG_TAG_MAP[k].tag = key}
      r    == [i \in 1..Len(tag) |-> IF tag[i] \in {"-", "_"} THEN " " ELSE tag[i]]
      Word(i) == /\ r[i] \in CharClass.AlphaNumeric
                 /\ (i = 1 \/ r[i - 1] \notin CharClass.AlphaNumeric)
  IN  IF hits # {} THEN WCAG_TAG_MAP[CHOOSE k \in hits : TRUE].label
      ELSE IF MatchesWcagCriterionTag(key)
        THEN <<"W", "C", "A", "G", " ", key[5], ".", key[6], ".", key[7]>>
      ELSE [i \in 1..Len(tag) |->
              IF Word(i) THEN ToUpperCase(<<r[i]>>)[1] ELSE r[i]]

\* mapWcagTags: the labels of the tags that are wcagddd
MapWcagTags(tags) ==
  LET kept == SelectSeq(tags, MatchesWcagCriterionTag)
  IN  [i \in 1..Len(kept) |-> MapWcagTag(kept[i])]

\* resolveWcagForLighthouseAudit: the audit's own tags, else the table's,
\* else nothing
ResolveWcagForLighthouseAudit(auditId, wcagTags) ==
  LET fromTags == MapWcagTags((IF wcagTags.defined THEN wcagTags.list ELSE <<>>))
  IN  IF Len(fromTags) > 0 THEN fromTags
      ELSE IF auditId \in DOMAIN LIGHTHOUSE_AUDIT_WCAG
              /\ Len(LIGHTHOUSE_AUDIT_WCAG[auditId]) > 0
        THEN MapWcagTags(LIGHTHOUSE_AUDIT_WCAG[auditId])
      ELSE <<>>

----------------------------------------------------------------------------
(* Finding cards of the capture-to-JIRA report: the unified fields set by  *)
(* findingsToJiraIssues and the cards of buildJiraReportHtml               *)

\* The unified report fields of one WaveJiraIssue.  The reference's why is
\* a non-empty explanation; its wording is not modelled.
WaveJiraCardIssue(tab, f) ==
  LET wcagRef == GetWcagRefForFinding(f.description, f.category)
      why     == CardText.Why
      numbers == Join(wcagRef.criteria, CardText.Comma)
  IN  [ tab        |-> tab,
        summary    |-> CardText.WavePrefix \o tab \o <<"]", " ">>
                       \o (IF Len(f.description) > 80
                           THEN Slice(f.description, 80) \o CardText.Ellipsis
                           ELSE f.description),
        wcagNumber |-> IF wcagRef.found THEN Defined(numbers) ELSE Undefined,
        wcagCause  |-> IF wcagRef.found THEN Defined(why) ELSE Undefined,
        actual     |-> Defined(f.description),
        expectedFix |-> IF wcagRef.found
                        THEN Defined(why \o CardText.FixPerWcag \o numbers \o <<".">>)
                        ELSE Undefined ]

\* The eight sections of one card of the capture-to-JIRA report; idx counts
\* from 0 within the tab.  StripWavePrefix is
\* summary.replace(/^\[WAVE\]\[[^\]]+\]\s*/, '').
JiraCardSections(issue, idx) ==
  LET StripWavePrefix(t) ==
        LET n      == Len(CardText.WavePrefix)
            closes == {p \in (n + 2)..Len(t) : t[p] = "]"}
        IN  IF Len(t) >= n /\ SubSeq(t, 1, n) = CardText.WavePrefix /\ closes # {}
               /\ t[n + 1] # "]"
            THEN TrimLeft(SubSeq(t, 1 + CHOOSE p \in closes : \A q \in closes : p <= q, Len(t)))
            ELSE t
      number == <<"0", "1", "2", "3", "4", "5", "6", "7", "8", "9">>
      title  == OrFalsy(Defined(Trim(StripWavePrefix(issue.summary))),
                        CardText.Issue \o <<number[idx + 2]>>)
  IN  [ wcagNum  |-> OrElse(issue.wcagNumber, CardText.Dash),
        sections |->
          JiraSec(SectionTitles[1], title)
          \o JiraSec(SectionTitles[2], issue.summary)
          \o JiraSec(SectionTitles[3], CardText.SeeOverlay)
          \o JiraSec(SectionTitles[4], CardText.WaveTab \o issue.tab)
          \o JiraSec(SectionTitles[5], OrElse(issue.wcagNumber, CardText.Dash))
          \o JiraSec(SectionTitles[6], OrElse(issue.wcagCause, CardText.Dash))
          \o JiraSec(SectionTitles[7], OrElse(issue.actual, issue.summary))
          \o JiraSec(SectionTitles[8], OrElse(issue.expectedFix, CardText.FixPerWave)) ]

----------------------------------------------------------------------------
(* Finding cards: the findings drawn and the two report builders           *)

\* Texts of the findings drawn
CardSample ==
  [
    ImageAlt      |-> <<"i", "m", "a", "g", "e", "-", "a", "l", "t">>,
    Help          |-> <<"I", "m", "a", "g", "e", "s", " ", "m", "u", "s", "t",
                     " ", "h", "a", "v", "e", " ", "a", "l", "t", "e", "r",
                     "n", "a", "t", "e", " ", "t", "e", "x", "t">>,
    Desc          |-> <<"E", "n", "s", "u", "r", "e", "s", " ", "<", "i", "m",
                     "g", ">", " ", "e", "l", "e", "m", "e", "n", "t", "s",
                     " ", "h", "a", "v", "e", " ", "a", "l", "t", "e", "r",
                     "n", "a", "t", "e", " ", "t", "e", "x", "t">>,
    Url           |-> <<"h", "t", "t", "p", "s", ":", "/", "/", "d", "e", "q",
                     "u", "e", "u", "n", "i", "v", "e", "r", "s", "i", "t",
                     "y", ".", "c", "o", "m", "/", "r", "u", "l", "e", "s",
                     "/", "a", "x", "e", "/", "i", "m", "a", "g", "e", "-",
                     "a", "l", "t">>,
    BestPractice  |-> <<"b", "e", "s", "t", "-", "p", "r", "a", "c", "t", "i",
                     "c", "e">>,
    Wcag2a        |-> <<"w", "c", "a", "g", "2", "a">>,
    Wcag412       |-> <<"w", "c", "a", "g", "4", "1", "2">>,
    Wcag22aa      |-> <<"w", "c", "a", "g", "2", "2", "a", "a">>,
    Wcag258       |-> <<"w", "c", "a", "g", "2", "5", "8">>,
    ImgHtml       |-> <<"<", "i", "m", "g", " ", "s", "r", "c", "=", "\"", "a",
                     ".", "p", "n", "g", "\"", ">">>,
    ImgSel        |-> <<"#", "h", "e", "r", "o">>,
    ImgTarget     |-> <<"i", "m", "g">>,
    Title         |-> <<"B", "u", "t", "t", "o", "n", "s", " ", "d", "o", " ",
                     "n", "o", "t", " ", "h", "a", "v", "e", " ", "a", "n",
                     " ", "a", "c", "c", "e", "s", "s", "i", "b", "l", "e",
                     " ", "n", "a", "m", "e">>,
    AuditDesc     |-> <<"L", "e", "a", "r", "n", " ", "h", "o", "w", " ", "t",
                     "o", " ", "m", "a", "k", "e", " ", "\"", "b", "u", "t",
                     "t", "o", "n", "s", "\"", " ", "m", "o", "r", "e", " ",
                     "a", "c", "c", "e", "s", "s", "i", "b", "l", "e", ".">>,
    Value         |-> <<"2", " ", "e", "l", "e", "m", "e", "n", "t", "s">>,
    Label         |-> <<"S", "u", "b", "m", "i", "t">>,
    LinkSummary   |-> <<"L", "i", "n", "k", " ", "h", "a", "s", " ", "n", "o",
                     " ", "a", "c", "c", "e", "s", "s", "i", "b", "l", "e",
                     " ", "n", "a", "m", "e", " ", "(", "s", "c", "r", "e",
                     "e", "n", " ", "r", "e", "a", "d", "e", "r", " ", "w",
                     "i", "l", "l", " ", "n", "o", "t", " ", "a", "n", "n",
                     "o", "u", "n", "c", "e", " ", "p", "u", "r", "p", "o",
                     "s", "e", ")", ".">>,
    ButtonSummary |-> <<"B", "u", "t", "t", "o", "n", " ", "h", "a", "s", " ",
                     "n", "o", " ", "a", "c", "c", "e", "s", "s", "i", "b",
                     "l", "e", " ", "n", "a", "m", "e", " ", "(", "e", ".",
                     "g", ".", " ", "i", "c", "o", "n", "-", "o", "n", "l",
                     "y", " ", "w", "i", "t", "h", " ", "n", "o", " ", "a",
                     "r", "i", "a", "-", "l", "a", "b", "e", "l", " ", "o",
                     "r", " ", "t", "e", "x", "t", ")", ".">>,
    InputSummary  |-> <<"I", "n", "p", "u", "t", " ", "(", "t", "e", "x", "t",
                     "b", "o", "x", ")", " ", "h", "a", "s", " ", "n", "o",
                     " ", "a", "c", "c", "e", "s", "s", "i", "b", "l", "e",
                     " ", "n", "a", "m", "e", "/", "l", "a", "b", "e", "l",
                     ".">>,
    VideoSummary  |-> <<"V", "i", "d", "e", "o", " ", "c", "o", "m", "p", "o",
                     "n", "e", "n", "t", "(", "s", ")", " ", "d", "e", "t",
                     "e", "c", "t", "e", "d", " ", "(", "1", ")", ".", " ",
                     "M", "a", "n", "u", "a", "l", " ", "v", "e", "r", "i",
                     "f", "i", "c", "a", "t", "i", "o", "n", " ", "r", "e",
                     "q", "u", "i", "r", "e", "d", ":", " ", "a", "c", "c",
                     "u", "r", "a", "t", "e", " ", "C", "l", "o", "s", "e",
                     "d", " ", "C", "a", "p", "t", "i", "o", "n", "s", " ",
                     "a", "n", "d", " ", "A", "u", "d", "i", "o", " ", "D",
                     "e", "s", "c", "r", "i", "p", "t", "i", "o", "n", "s",
                     " ", "(", "W", "C", "A", "G", " ", "1", ".", "2", ")",
                     ".">>,
    AudioSummary  |-> <<"A", "u", "d", "i", "o", " ", "c", "o", "m", "p", "o",
                     "n", "e", "n", "t", "(", "s", ")", " ", "d", "e", "t",
                     "e", "c", "t", "e", "d", " ", "(", "1", ")", ".", " ",
                     "M", "a", "n", "u", "a", "l", " ", "v", "e", "r", "i",
                     "f", "i", "c", "a", "t", "i", "o", "n", " ", "r", "e",
                     "q", "u", "i", "r", "e", "d", ":", " ", "c", "a", "p",
                     "t", "i", "o", "n", "s", "/", "t", "r", "a", "n", "s",
                     "c", "r", "i", "p", "t", " ", "o", "r", " ", "a", "l",
                     "t", "e", "r", "n", "a", "t", "i", "v", "e", ".">>,
    IframeSummary |-> <<"E", "m", "b", "e", "d", "/", "i", "f", "r", "a", "m",
                     "e", "(", "s", ")", " ", "d", "e", "t", "e", "c", "t",
                     "e", "d", " ", "(", "1", ")", ".", " ", "I", "f", " ",
                     "t", "h", "e", "y", " ", "c", "o", "n", "t", "a", "i",
                     "n", " ", "v", "i", "d", "e", "o", "/", "a", "u", "d",
                     "i", "o", ",", " ", "v", "e", "r", "i", "f", "y", " ",
                     "c", "a", "p", "t", "i", "o", "n", "s", " ", "a", "n",
                     "d", " ", "a", "c", "c", "e", "s", "s", "i", "b", "i",
                     "l", "i", "t", "y", ".">>,
    Details       |-> <<"D", "e", "t", "a", "i", "l", "s">>,
    Contrast      |-> <<"C", "o", "n", "t", "r", "a", "s", "t">>,
    EmptyLink     |-> <<"E", "m", "p", "t", "y", " ", "l", "i", "n", "k">> ]

\* The issue normalizeLhrToResult pushes for a failed audit
LhCardIssue(audit, tagMap) ==
  [ id           |-> audit.id,
    title        |-> audit.title,
    description  |-> OrElse(audit.description, <<>>),
    displayValue |-> audit.displayValue,
    wcagTags     |-> LhIssue(audit.id, [score |-> "0", items |-> <<>>], tagMap).wcagTags,
    items        |-> audit.items ]

\* generateReport for a result with one finding: the card of the finding
GenerateReportCard ==
  /\ pc = "cards:scanned"
  /\ cardInput.engine \in {"Axe-core", "A11y Tree", "Lighthouse"}
  /\ cards' =
       [ rendered |-> TRUE,
         card |->
           CASE cardInput.engine = "Axe-core" -> AxeCardSections(cardInput.finding)
             [] cardInput.engine = "A11y Tree" -> TreeCardSections(cardInput.finding)
             [] cardInput.engine = "Lighthouse" ->
                  LhCardSections(
                    LhCardIssue(cardInput.finding,
                                BuildTagMapFromArtifacts(cardInput.artifacts))),
         csvTags |->
           IF cardInput.engine = "Axe-core" THEN CsvTagsColumn(cardInput.finding)
           ELSE <<>> ]
  /\ pc' = "cards:rendered"
  /\ UNCHANGED <<cardInput, axeVars, treeVars, lhVars, waveVars, refVars, gateVars,
                 batchVars, strictVars, scanVars, waveApiVars, chromeVars>>

\* findingsToJiraIssues and buildJiraReportHtml for one finding
BuildJiraReportCard ==
  /\ pc = "cards:scanned"
  /\ cardInput.engine = "WAVE"
  /\ cards' =
       [ rendered |-> TRUE,
         card |-> JiraCardSections(
                    WaveJiraCardIssue(cardInput.finding.tab, cardInput.finding), 0) ]
  /\ pc' = "cards:rendered"
  /\ UNCHANGED <<cardInput, axeVars, treeVars, lhVars, waveVars, refVars, gateVars,
                 batchVars, strictVars, scanVars, waveApiVars, chromeVars>>

\* input is one of the findings drawn, with the engine that reported it
IsCardInput(input) ==
  LET
      \* AxeResult as the card builder reads it: help, description and helpUrl are
      \* read as optional, tags may name no criterion, a node has its target and
      \* may lack html, and html may be longer than the snippet limit.
      AxeCardFindings ==
        LET withHtml == [html |-> Defined(CardSample.ImgHtml),
                         target |-> [defined |-> TRUE, list |-> <<CardSample.ImgSel>>]]
            noHtml   == [html |-> Undefined,
                         target |-> [defined |-> TRUE,
                                     list |-> <<CardSample.ImgSel, CardSample.ImgTarget>>]]
            longHtml == [html |-> Defined([i \in 1..301 |-> IF i = 1 THEN "<" ELSE "x"]),
                         target |-> [defined |-> TRUE, list |-> <<CardSample.ImgSel>>]]
        IN  { [id |-> CardSample.ImageAlt, help |-> help, description |-> description,
               helpUrl |-> helpUrl, tags |-> tags, nodes |-> nodes] :
                help \in {Undefined, Defined(CardSample.Help)},
                description \in {Undefined, Defined(CardSample.Desc)},
                helpUrl \in {Undefined, Defined(CardSample.Url)},
                tags \in { <<>>, <<CardSample.BestPractice>>,
                           <<LhText.CatColor, LhText.Wcag2aa, LhText.Wcag143>>,
                           <<CardSample.BestPractice, LhText.Wcag2aa, LhText.Wcag143>> },
                nodes \in { <<>>, <<withHtml>>, <<noHtml>>, <<longHtml>>,
                            <<noHtml, withHtml>>, <<noHtml, noHtml>> } }
      \* A11yTreeIssue as walk and addMediaReviewIssues push it: a nameless
      \* control carries the empty name it was flagged for, a media issue none.
      TreeCardFindings ==
        { [kind |-> "nameless-link", role |-> AxText.Link, name |-> name,
           summary |-> CardSample.LinkSummary] :
             name \in {Undefined, Defined(<<>>), Defined(<<" ">>)} }
        \cup
        { [kind |-> "nameless-button", role |-> AxText.Button, name |-> name,
           summary |-> CardSample.ButtonSummary] :
             name \in {Undefined, Defined(<<>>), Defined(<<" ">>)} }
        \cup
        { [kind |-> "nameless-input", role |-> AxText.Textbox, name |-> name,
           summary |-> CardSample.InputSummary] :
             name \in {Undefined, Defined(<<>>), Defined(<<" ">>)} }
        \cup
        { [kind |-> "media-manual-review", role |-> AxText.Video, name |-> Undefined,
           summary |-> CardSample.VideoSummary],
          [kind |-> "media-manual-review", role |-> AxText.Audio, name |-> Undefined,
           summary |-> CardSample.AudioSummary],
          [kind |-> "media-manual-review", role |-> AxText.Iframe, name |-> Undefined,
           summary |-> CardSample.IframeSummary] }
      \* A failed audit of the lhr with the auditor's artifacts: ids the report's
      \* table knows, ids only the dictionary knows, and one nobody knows
      LhCardAudits ==
        LET bySnippet  == [selector |-> Undefined, snippet |-> Defined(CardSample.ImgHtml),
                           nodeLabel |-> Undefined]
            bySelector == [selector |-> Defined(CardSample.ImgSel), snippet |-> Undefined,
                           nodeLabel |-> Defined(CardSample.Label)]
            bare       == [selector |-> Undefined, snippet |-> Undefined,
                           nodeLabel |-> Undefined]
        IN  { [id |-> id, title |-> CardSample.Title, description |-> description,
               displayValue |-> displayValue, items |-> items] :
                id \in {"color-contrast", "button-name", "target-size", "html-has-lang",
                        "custom-audit"},
                description \in {Undefined, Defined(CardSample.AuditDesc)},
                displayValue \in {Undefined, Defined(CardSample.Value)},
                items \in { <<>>, <<bySnippet>>, <<bySelector>>, <<bare>>,
                            <<bySelector, bare>> } }
      \* artifacts.Accessibility of the run: absent, or the rule-engine entries
      \* with their tags
      LhCardArtifacts ==
        { [present |-> FALSE, entries |-> <<>>],
          [present |-> TRUE,
           entries |-> << [id |-> "color-contrast",
                           tags |-> <<LhText.CatColor, LhText.Wcag2aa, LhText.Wcag143>>],
                          [id |-> "button-name",
                           tags |-> <<CardSample.Wcag2a, CardSample.Wcag412>>],
                          [id |-> "target-size",
                           tags |-> <<CardSample.Wcag22aa, CardSample.Wcag258>>],
                          [id |-> "html-has-lang", tags |-> <<CardSample.Wcag2a>>] >>] }
      \* A WAVE finding and the tab it is listed under
      WaveCardFindings ==
        { [tab |-> tab, description |-> description, category |-> category] :
            tab \in {CardSample.Details, CardSample.Contrast},
            description \in RefWords \cup {<<>>, CardSample.EmptyLink},
            category \in RefCategories }
  IN
  \/ \E f \in AxeCardFindings : input = [engine |-> "Axe-core", finding |-> f]
  \/ \E f \in TreeCardFindings : input = [engine |-> "A11y Tree", finding |-> f]
  \/ \E f \in LhCardAudits : \E a \in LhCardArtifacts :
       input = [engine |-> "Lighthouse", finding |-> f, artifacts |-> a]
  \/ \E f \in WaveCardFindings : input = [engine |-> "WAVE", finding |-> f]

----------------------------------------------------------------------------
(* Finding cards: properties                                               *)

CardSections == cards.card.sections

\* Position of a title in the fixed list of eight; 0 for any other title
TitleIndex(title) ==
  IF \E k \in 1..Len(SectionTitles) : SectionTitles[k] = title
  THEN CHOOSE k \in 1..Len(SectionTitles) : SectionTitles[k] = title
  ELSE 0

HasSection(title) == \E k \in 1..Len(CardSections) : CardSections[k].title = title

\* C17: every card, of any engine and of the capture-to-JIRA report, holds
\* only sections of the eight fixed fields, each at most once and in the
\* fixed order, and every section it holds has non-blank content: a field
\* whose content is blank is left out of the card.
C17_EightFieldsInOrderNeverBlank ==
  cards.rendered =>
    /\ HasSection(SectionTitles[1])
    /\ \A k \in 1..Len(CardSections) :
         /\ TitleIndex(CardSections[k].title) # 0
         /\ Trim(CardSections[k].content) # <<>>
    /\ \A k, l \in 1..Len(CardSections) :
         k < l => TitleIndex(CardSections[k].title) < TitleIndex(CardSections[l].title)

\* A rule-engine card that leaves fields out and renders the others
C17_Witness ==
  /\ cards.rendered
  /\ cardInput.engine = "Axe-core"
  /\ ~cardInput.finding.description.defined
  /\ cardInput.finding.help.defined
  /\ ~HasSection(SectionTitles[6])
  /\ HasSection(SectionTitles[7])
  /\ Len(CardSections) >= 2 /\ Len(CardSections) < Len(SectionTitles)

\* The finding has no WCAG criteria in any table or tag its engine consults
NoCriteriaMapped ==
  CASE cardInput.engine = "Axe-core" ->
         \A k \in 1..Len(cardInput.finding.tags) :
           /\ ~Includes(cardInput.finding.tags[k], LhText.Wcag)
           /\ ~Includes(cardInput.finding.tags[k], CardText.Cat)
    [] cardInput.engine = "A11y Tree" ->
         cardInput.finding.kind \notin DOMAIN TreeKindToWcag
    [] cardInput.engine = "Lighthouse" ->
         /\ cardInput.finding.id \notin DOMAIN LhAuditToWcag
         /\ cardInput.finding.id \notin DOMAIN LIGHTHOUSE_AUDIT_WCAG
         /\ \A k \in 1..Len(cardInput.artifacts.entries) :
              cardInput.artifacts.entries[k].id # cardInput.finding.id
    [] cardInput.engine = "WAVE" ->
         ~GetWcagRefForFinding(cardInput.finding.description,
                               cardInput.finding.category).found
    [] OTHER -> FALSE

RECURSIVE SplitOnComma(_)
SplitOnComma(t) ==
  LET hits == {i \in 1..(Len(t) - 1) : t[i] = "," /\ t[i + 1] = " "}
      cut  == CHOOSE i \in hits : \A j \in hits : i <= j
  IN  IF t = <<>> THEN {}
      ELSE IF hits = {} THEN {t}
      ELSE {SubSeq(t, 1, cut - 1)} \cup SplitOnComma(SubSeq(t, cut + 2, Len(t)))

\* The criteria numbers a scored-audit card shows: none when it has no WCAG
\* number section
ShownCriteria ==
  UNION { SplitOnComma(CardSections[k].content) :
            k \in {j \in 1..Len(CardSections) : CardSections[j].title = SectionTitles[5]} }

\* The criterion tags extracted from the artifacts for the audit of the card
ArtifactWcagTags ==
  LhCardIssue(cardInput.finding, BuildTagMapFromArtifacts(cardInput.artifacts)).wcagTags

\* The criteria numbers the priority chain gives the audit of the card:
\* "WCAG d.d.d ..." is the label of every criterion tag
ChainCriteria ==
  LET labels == ResolveWcagForLighthouseAudit(
                  cardInput.finding.id, [defined |-> TRUE, list |-> ArtifactWcagTags])
  IN  {SubSeq(labels[k], 6, 10) : k \in 1..Len(labels)}

\* C20 as stated: the criteria shown on the card of a failed scored audit
\* are those of the priority chain: the artifact tags of the audit when
\* there are any, else the static table's entry, else none.
C20_ShownCriteriaFollowChain ==
  (cards.rendered /\ cardInput.engine = "Lighthouse") =>
    ShownCriteria = ChainCriteria

\* A failed audit with criterion tags in the artifacts and an entry in the
\* static table, whose card shows other criteria than its artifact tags
C20_Witness ==
  /\ cards.rendered
  /\ cardInput.engine = "Lighthouse"
  /\ ArtifactWcagTags # <<>>
  /\ cardInput.finding.id \in DOMAIN LIGHTHOUSE_AUDIT_WCAG
  /\ ShownCriteria # ChainCriteria

----------------------------------------------------------------------------
(* Strict audit: buildWcagAuditReport (scripts/run-wcag-audit.ts)          *)

MaxStrictAudits == 2

\* lhr is one of the reports drawn; Object.values lists the audits in key
\* order and the key of an audit is its id
IsStrictLhr(lhr) ==
  LET
      \* An audit of lhr.audits as the strict report reads it: its tags (absent,
      \* or with or without 'accessibility'), its display mode (absent, or a mode
      \* of the auditor) with a score that mode can carry, and its details.items.
      StrictAuditShapes ==
        LET accessibility == <<"a", "c", "c", "e", "s", "s", "i", "b", "i", "l", "i", "t", "y">>
            item == [selector |-> "undefined", nodeSelector |-> "#nav", snippet |-> "<nav>"]
            modeAndScore ==
              { <<"binary", "0">>, <<"binary", "1">>, <<"numeric", "0">>,
                <<"numeric", "0.5">>, <<"numeric", "1">>, <<"manual", "null">>,
                <<"notApplicable", "null">>, <<"informative", "null">>,
                <<"error", "null">>, <<"undefined", "0">>, <<"undefined", "1">> }
        IN  { [tags |-> tags, scoreDisplayMode |-> ms[1], score |-> ms[2], items |-> <<item>>] :
                tags \in { Undefined,
                           [defined |-> TRUE, list |-> <<accessibility, LhText.Wcag143>>],
                           [defined |-> TRUE, list |-> <<LhText.Wcag2aa, LhText.Wcag143>>] },
                ms \in modeAndScore }
  IN
  \E n \in 0..MaxStrictAudits :
    \E shapes \in [1..n -> StrictAuditShapes] :
      lhr = [audits |-> [k \in 1..n |->
                          [id |-> k, tags |-> shapes[k].tags,
                           scoreDisplayMode |-> shapes[k].scoreDisplayMode,
                           score |-> shapes[k].score, items |-> shapes[k].items]]]

\* Mutant of StrictBucketOf: an audit without a score counts as failed, as
\* in normalizeLhrToResult.
StrictBucketNullFails(audit) ==
  IF ~audit.tags.defined \/ audit.tags.list[1] = LhText.Wcag2aa THEN "none"
  ELSE IF audit.scoreDisplayMode = "manual" THEN "manualChecks"
  ELSE IF audit.scoreDisplayMode = "notApplicable" THEN "notApplicable"
  ELSE IF audit.score \in {"0", "null"} THEN "failures"
  ELSE IF audit.score = "1" THEN "passes"
  ELSE "none"

\* The bucket the loop body pushes an audit to; "none" when it continues
\* without a push
StrictBucketOf(audit) ==
  LET tags == IF audit.tags.defined THEN audit.tags.list ELSE <<>>
      mode == IF audit.scoreDisplayMode = "undefined" THEN "" ELSE audit.scoreDisplayMode
  IN  IF \A k \in 1..Len(tags) : tags[k] # <<"a", "c", "c", "e", "s", "s", "i", "b", "i", "l", "i", "t", "y">> THEN "none"
      ELSE IF mode = "manual" THEN "manualChecks"
      ELSE IF mode = "notApplicable" THEN "notApplicable"
      ELSE IF audit.score = "0" THEN "failures"
      ELSE IF audit.score = "1" THEN "passes"
      ELSE "none"

\* buildWcagAuditReport: StrictFinding is the finding pushed for an audit,
\* FindingBase with nodes added for a failure
BuildWcagAuditReport(lhr) ==
  LET StrictFinding(audit) ==
      LET tags == IF audit.tags.defined THEN audit.tags.list ELSE <<>>
          base == [ id               |-> audit.id,
                    score            |-> audit.score,
                    scoreDisplayMode |-> IF audit.scoreDisplayMode = "undefined" THEN ""
                                         ELSE audit.scoreDisplayMode,
                    tags             |-> tags,
                    wcagCriteria     |-> MapWcagTags(tags) ]
      IN  IF StrictBucketOf(audit) = "failures"
          THEN base @@ [nodes |-> [i \in 1..Len(audit.items) |->
                                     [selector |-> ItemSelector(audit.items[i]),
                                      snippet  |-> audit.items[i].snippet]]]
          ELSE base
      Bucket(name) ==
        LET kept == SelectSeq(lhr.audits, LAMBDA a : StrictBucketOf(a) = name)
        IN  [k \in 1..Len(kept) |-> StrictFinding(kept[k])]
  IN  [ built    |-> TRUE,
        summary  |-> [ passes        |-> Len(Bucket("passes")),
                       failures      |-> Len(Bucket("failures")),
                       manualChecks  |-> Len(Bucket("manualChecks")),
                       notApplicable |-> Len(Bucket("notApplicable")) ],
        findings |-> [ passes        |-> Bucket("passes"),
                       failures      |-> Bucket("failures"),
                       manualChecks  |-> Bucket("manualChecks"),
                       notApplicable |-> Bucket("notApplicable") ] ]

\* main of run-wcag-audit.ts once the auditor has returned its lhr
RunWcagAudit ==
  /\ pc = "strict:audited"
  /\ strictReport' = BuildWcagAuditReport(strictLhr)
  /\ pc' = "strict:reported"
  /\ UNCHANGED <<strictLhr, axeVars, treeVars, lhVars, waveVars, refVars, gateVars,
                 batchVars, cardVars, scanVars, waveApiVars, chromeVars>>

StrictBuckets == {"passes", "failures", "manualChecks", "notApplicable"}

\* The buckets of the report that hold a finding of the audit
BucketsHolding(audit) ==
  { b \in StrictBuckets :
      \E k \in 1..Len(strictReport.findings[b]) :
        strictReport.findings[b][k].id = audit.id }

IsAccessibilityTagged(audit) ==
  /\ audit.tags.defined
  /\ \E k \in 1..Len(audit.tags.list) : audit.tags.list[k] = <<"a", "c", "c", "e", "s", "s", "i", "b", "i", "l", "i", "t", "y">>

\* C21 as stated: every accessibility-tagged audit is in exactly one of the
\* four buckets, and the summary counts are the bucket sizes.
C21_EveryTaggedAuditInExactlyOneBucket ==
  strictReport.built =>
    /\ \A k \in 1..Len(strictLhr.audits) :
         IsAccessibilityTagged(strictLhr.audits[k]) =>
           Cardinality(BucketsHolding(strictLhr.audits[k])) = 1
    /\ \A b \in StrictBuckets :
         strictReport.summary[b] = Len(strictReport.findings[b])

\* C21: no audit is in two buckets and an audit without the accessibility
\* tag is in none; an accessibility-tagged audit is in manualChecks when its
\* mode is manual, in notApplicable when its mode is notApplicable, and
\* otherwise in failures when its score is 0, in passes when its score is 1
\* and in no bucket at all for any other score (null, or a partial score);
\* a bucket holds each audit at most once and the four summary counts are
\* the bucket sizes.
C21_TaggedAuditInAtMostOneBucket ==
  strictReport.built =>
    /\ \A k \in 1..Len(strictLhr.audits) :
         LET audit == strictLhr.audits[k]
             mode  == audit.scoreDisplayMode
         IN  BucketsHolding(audit) =
               IF ~IsAccessibilityTagged(audit) THEN {}
               ELSE IF mode = "manual" THEN {"manualChecks"}
               ELSE IF mode = "notApplicable" THEN {"notApplicable"}
               ELSE IF audit.score = "0" THEN {"failures"}
               ELSE IF audit.score = "1" THEN {"passes"}
               ELSE {}
    /\ \A b \in StrictBuckets :
         /\ strictReport.summary[b] = Len(strictReport.findings[b])
         /\ \A i, j \in 1..Len(strictReport.findings[b]) :
              i # j => strictReport.findings[b][i].id # strictReport.findings[b][j].id

\* A report built from a failed audit and an accessibility-tagged audit
\* with a partial score, which no bucket holds
C21_Witness ==
  /\ strictReport.built
  /\ strictReport.summary.failures = 1
  /\ \E k \in 1..Len(strictLhr.audits) :
       /\ IsAccessibilityTagged(strictLhr.audits[k])
       /\ strictLhr.audits[k].scoreDisplayMode = "numeric"
       /\ strictLhr.audits[k].score = "0.5"
       /\ BucketsHolding(strictLhr.audits[k]) = {}

----------------------------------------------------------------------------
(* Rule-engine scan: runAxeScan (engines/axe-engine.ts) with its navigation, *)
(* its wait for content and the target-size check                          *)

MaxElements == 2

MIN_TARGET_SIZE == 24

\* The selector of the target-size check: links, buttons, visible form
\* controls and anything with a tab index other than -1
InteractiveSelector ==
  {"a[href]", "button", "[role=button]", "input", "select", "textarea", "[tabindex=0]"}

\* Mutant of IsSmallTarget: a target of exactly the minimum size is flagged.
IsSmallTargetInclusive(el) ==
  el.width <= MIN_TARGET_SIZE \/ el.height <= MIN_TARGET_SIZE

\* rect.width < minSize || rect.height < minSize
IsSmallTarget(el) ==
  el.width < MIN_TARGET_SIZE \/ el.height < MIN_TARGET_SIZE

\* el.id ? '#' + el.id : tagName + ('.' + first class name, if any)
TargetSelector(el) ==
  IF el.id # "" THEN "#" \o el.id
  ELSE el.tag \o (IF el.class # "" THEN "." \o el.class ELSE "")

\* page.evaluate of the target-size check: the matched elements below the
\* minimum, in document order
SmallTargets(elements) ==
  LET Flagged(el) == el.matches \in InteractiveSelector /\ IsSmallTarget(el)
  IN  [k \in 1..Len(SelectSeq(elements, Flagged)) |->
         [ selector |-> TargetSelector(SelectSeq(elements, Flagged)[k]),
           width    |-> SelectSeq(elements, Flagged)[k].width,
           height   |-> SelectSeq(elements, Flagged)[k].height ]]

\* targetSizeViolation (the multiplication sign of the two texts is written x)
TargetSizeViolation(smallTargets) ==
  [ id          |-> "target-size-minimum",
    impact      |-> "serious",
    description |-> "WCAG 2.5.8: Interactive elements must have a minimum size of 24x24 CSS pixels.",
    help        |-> "Ensure touch targets are at least 24x24 pixels.",
    helpUrl     |-> "https://www.w3.org/WAI/WCAG22/Understanding/target-size-minimum.html",
    tags        |-> <<"wcag2aa", "wcag22aa", "cat-target-size">>,
    nodes       |-> [k \in 1..Len(smallTargets) |->
                       [html |-> "", target |-> <<smallTargets[k].selector>>]] ]

\* runAxeScan.  The first revision navigates once; the later one navigates
\* until the network is idle and, when that rejects, once more until the
\* document is parsed.  A rejected wait for content is swallowed; a
\* rejected navigation that nothing catches leaves the function.
RunAxeScan(input) ==
  LET firstGoto == << [step |-> "page.goto", ok |-> input.gotoOk[1]] >>
      fallback  == IF input.revision = "networkidle" /\ ~input.gotoOk[1]
                     THEN << [step |-> "page.goto domcontentloaded", ok |-> input.gotoOk[2]] >>
                     ELSE <<>>
      navigation == firstGoto \o fallback
      navigated == navigation[Len(navigation)].ok
      wait      == IF input.contentWaitMs > 0
                     THEN << [step |-> "page.waitForFunction", ok |-> input.contentReady] >>
                     ELSE <<>>
      smallTargets == SmallTargets(input.elements)
  IN  IF ~navigated
        THEN [ done |-> TRUE, returned |-> FALSE, log |-> navigation ]
        ELSE [ done |-> TRUE, returned |-> TRUE,
               log  |-> navigation \o wait
                        \o << [step |-> "builder.analyze", ok |-> TRUE],
                              [step |-> "page.evaluate", ok |-> TRUE] >>,
               violations |-> input.native
                              \o (IF Len(smallTargets) > 0
                                    THEN << TargetSizeViolation(smallTargets) >>
                                    ELSE <<>>) ]

\* The call of runAxeScan on one page
ScanPage ==
  /\ pc = "scan:opened"
  /\ pc' = "scan:done"
  /\ axeScanResult' = RunAxeScan(axeScanInput)
  /\ UNCHANGED axeScanInput
  /\ UNCHANGED <<axeVars, treeVars, lhVars, waveVars, refVars, gateVars, batchVars,
            cardVars, strictVars, waveApiVars, chromeVars>>

\* The pages drawn: both revisions of the navigation, every outcome of the
\* navigation and of the wait for content, findings of the rules the
\* builder is restricted to, and up to MaxElements elements around the
\* minimum size.
IsAxeScanInput(input) ==
  LET Native(id, impact, n) ==
        [ id |-> id, impact |-> impact, description |-> id, help |-> id,
          helpUrl |-> "https://dequeuniversity.com/rules/axe/" \o id,
          tags |-> <<"cat.text-alternatives", "wcag2a">>,
          nodes |-> [k \in 1..n |-> [html |-> "<" \o id \o ">", target |-> <<id>>]] ]
      NativeLists ==
        { <<>>, << Native("image-alt", "critical", 1) >>,
          << Native("link-name", "serious", 2), Native("button-name", "critical", 1) >> }
      El(matches, tag, id, class, w, h) ==
        [matches |-> matches, tag |-> tag, id |-> id, class |-> class,
         width |-> w, height |-> h]
      ElementPool ==
        { El("a[href]", "a", "", "nav", MIN_TARGET_SIZE, MIN_TARGET_SIZE),
          El("button", "button", "go", "", MIN_TARGET_SIZE - 1, MIN_TARGET_SIZE),
          El("input", "input", "", "", MIN_TARGET_SIZE, MIN_TARGET_SIZE - 1),
          El("[tabindex=0]", "span", "", "chip", MIN_TARGET_SIZE - 1, MIN_TARGET_SIZE - 1),
          El("select", "select", "", "", MIN_TARGET_SIZE + 1, MIN_TARGET_SIZE + 1),
          El("none", "div", "", "dot", 10, 10),
          El("input[type=hidden]", "input", "token", "", 0, 0),
          El("[tabindex=-1]", "span", "", "", 10, 10) }
  IN  /\ \E revision \in {"load", "networkidle"} :
         \E first \in BOOLEAN : \E second \in BOOLEAN :
         \E contentWaitMs \in {0, 30000} : \E contentReady \in BOOLEAN :
         \E native \in NativeLists :
         \E n \in 0..MaxElements : \E elements \in [1..n -> ElementPool] :
           /\ (revision = "load" \/ first) => second = first
           /\ contentWaitMs = 0 => contentReady
           /\ input = [ revision |-> revision, gotoOk |-> <<first, second>>,
                        contentWaitMs |-> contentWaitMs, contentReady |-> contentReady,
                        native |-> native, elements |-> elements ]

----------------------------------------------------------------------------
(* Rule-engine scan: properties                                            *)

\* Positions of the elements the target-size policy is about: matched by
\* the selector, and narrower or lower than 24 pixels
UndersizedElements ==
  {k \in 1..Len(axeScanInput.elements) :
     /\ axeScanInput.elements[k].matches \in InteractiveSelector
     /\ axeScanInput.elements[k].width < 24 \/ axeScanInput.elements[k].height < 24}

\* C23: runAxeScan returns the engine's own violation entries in their
\* order, followed by at most one entry target-size-minimum with impact
\* serious and the WCAG 2.5.8 citation; that entry is present exactly when
\* some interactive element is narrower or lower than 24 pixels and has one
\* node per such element, so an element of exactly 24 by 24 is not flagged.
C23_NativeThenOneTargetSizeEntry ==
  (axeScanResult.done /\ axeScanResult.returned) =>
    LET native == axeScanInput.native
        out    == axeScanResult.violations
        extra  == SubSeq(out, Len(native) + 1, Len(out))
    IN  /\ Len(out) >= Len(native)
        /\ SubSeq(out, 1, Len(native)) = native
        /\ \A k \in 1..Len(native) : out[k].id # "target-size-minimum"
        /\ Len(extra) <= 1
        /\ Len(extra) = 1 <=> UndersizedElements # {}
        /\ \A k \in 1..Len(extra) :
             /\ extra[k].id = "target-size-minimum"
             /\ extra[k].impact = "serious"
             /\ extra[k].helpUrl
                  = "https://www.w3.org/WAI/WCAG22/Understanding/target-size-minimum.html"
             /\ extra[k].tags = <<"wcag2aa", "wcag22aa", "cat-target-size">>
             /\ Len(extra[k].nodes) = Cardinality(UndersizedElements)
             /\ \A n \in 1..Len(extra[k].nodes) :
                  \E e \in UndersizedElements :
                    /\ extra[k].nodes[n].target = <<TargetSelector(axeScanInput.elements[e])>>
                    /\ Cardinality({j \in UndersizedElements : j < e}) = n - 1

\* Two native entries, a link of exactly 24 by 24 and a button one pixel
\* too narrow: the synthesized entry comes third, with the button only.
C23_Witness ==
  /\ axeScanResult.done
  /\ axeScanResult.returned
  /\ Len(axeScanInput.native) = 2
  /\ Len(axeScanInput.elements) = 2
  /\ axeScanInput.elements[1].matches = "a[href]"
  /\ axeScanInput.elements[1].width = 24
  /\ axeScanInput.elements[1].height = 24
  /\ axeScanInput.elements[2].width = 23
  /\ axeScanInput.elements[2].height = 24
  /\ Len(axeScanResult.violations) = 3
  /\ axeScanResult.violations[3].id = "target-size-minimum"
  /\ axeScanResult.violations[3].nodes = << [html |-> "", target |-> <<"#go">>] >>

\* The page did not load: every navigation runAxeScan attempted rejected
NavigationFailed ==
  /\ ~axeScanInput.gotoOk[1]
  /\ axeScanInput.revision = "networkidle" => ~axeScanInput.gotoOk[2]

\* The page never reached the minimally-interactive state within the wait
ContentNeverReady ==
  axeScanInput.contentWaitMs > 0 /\ ~axeScanInput.contentReady

\* C27, as the claim states it: when the page fails to load or never
\* becomes minimally interactive, the scan still runs against the DOM there
\* is and returns a result.
C27_NavigationOrContentFailureIsNonFatal ==
  (axeScanResult.done /\ (NavigationFailed \/ ContentNeverReady)) =>
    /\ axeScanResult.returned
    /\ \E k \in 1..Len(axeScanResult.log) : axeScanResult.log[k].step = "builder.analyze"

\* The navigation until the network is idle rejects, the one until the
\* document is parsed rejects as well, and runAxeScan throws before the
\* engine is run.
C27_Witness ==
  /\ axeScanResult.done
  /\ axeScanInput.revision = "networkidle"
  /\ axeScanInput.gotoOk = <<FALSE, FALSE>>
  /\ ~axeScanResult.returned
  /\ \A k \in 1..Len(axeScanResult.log) : axeScanResult.log[k].step # "builder.analyze"

----------------------------------------------------------------------------
(* Finding cards: the WCAG tags of a rule-engine entry in the card and in  *)
(* the flat row                                                            *)

\* The tags of the entry the card builder's filter recognizes, in their order
RecognizedTags ==
  SelectSeq(cardInput.finding.tags,
            LAMBDA t : Includes(t, LhText.Wcag) \/ Includes(t, CardText.Cat))

\* The other tags of the entry
UnrecognizedTags ==
  SelectSeq(cardInput.finding.tags,
            LAMBDA t : ~(Includes(t, LhText.Wcag) \/ Includes(t, CardText.Cat)))

\* C24, as the claim states it: the card's WCAG number field and the flat
\* row's WCAG tags column of a rule-engine entry carry exactly the entry's
\* tags of WCAG-tag syntax, in their order, and no other tag of the entry.
C24_OnlyWcagTagsInCardAndRow ==
  (cards.rendered /\ cardInput.engine = "Axe-core") =>
    /\ RecognizedTags # <<>> =>
         \E k \in 1..Len(CardSections) :
           /\ CardSections[k].title = SectionTitles[5]
           /\ CardSections[k].content = Join(RecognizedTags, CardText.Comma)
    /\ RecognizedTags = <<>> => ~HasSection(SectionTitles[5])
    /\ cards.csvTags = Join(RecognizedTags, CardText.Semi)
    /\ \A k \in 1..Len(UnrecognizedTags) :
         /\ ~Includes(cards.csvTags, UnrecognizedTags[k])
         /\ \A j \in 1..Len(CardSections) :
              CardSections[j].title = SectionTitles[5] =>
                ~Includes(CardSections[j].content, UnrecognizedTags[k])

\* An entry tagged best-practice, wcag2aa, wcag143: the card shows the two
\* WCAG tags, the row's column all three.
C24_Witness ==
  /\ cards.rendered
  /\ cardInput.engine = "Axe-core"
  /\ cardInput.finding.tags = <<CardSample.BestPractice, LhText.Wcag2aa, LhText.Wcag143>>
  /\ cards.card.wcagNum = Join(<<LhText.Wcag2aa, LhText.Wcag143>>, CardText.Comma)
  /\ cards.csvTags
       = Join(<<CardSample.BestPractice, LhText.Wcag2aa, LhText.Wcag143>>, CardText.Semi)

----------------------------------------------------------------------------
(* WAVE API client: runWaveScan (engines/wave-engine.ts)                   *)

\* Mutant of IsBlankKey: only an unset variable counts as a missing key.
IsUnsetKey(key) == ~key.defined

\* !key?.trim()
IsBlankKey(key) == ~key.defined \/ Trim(key.text) = <<>>

\* runWaveScan: the requests it issues, in order, and the value it returns
\* or the message of the error it throws.  A rejected fetch leaves the
\* function with the network error.
RunWaveScan(call) ==
  LET request == [method |-> "GET", key |-> call.key.text, reporttype |-> "2"]
      Threw(requests, message, withResponse) ==
        [ done |-> TRUE, requests |-> requests, returned |-> FALSE,
          error |-> message, waveResponse |-> withResponse ]
  IN  IF IsBlankKey(call.key)
        THEN Threw(<<>>, "WAVE_API_KEY environment variable is required for WAVE API scans.",
                   FALSE)
      ELSE IF call.fetch = "rejects"
        THEN Threw(<<request>>, "fetch failed", FALSE)
      ELSE IF ~call.ok
        THEN Threw(<<request>>, "WAVE API HTTP", FALSE)
      ELSE IF call.success # "true"
        THEN Threw(<<request>>,
                   IF call.success = "false: error text" THEN "error text"
                   ELSE "WAVE API request failed.", FALSE)
      ELSE IF call.errors > 0 \/ call.contrast > 0
        THEN Threw(<<request>>, "WAVE failures", TRUE)
      ELSE [ done |-> TRUE, requests |-> <<request>>, returned |-> TRUE,
             error |-> "", waveResponse |-> TRUE ]

\* One call of runWaveScan
WaveScan ==
  /\ pc = "waveapi:called"
  /\ pc' = "waveapi:done"
  /\ waveOutcome' = RunWaveScan(waveCall)
  /\ UNCHANGED waveCall
  /\ UNCHANGED <<axeVars, treeVars, lhVars, waveVars, refVars, gateVars, batchVars,
            cardVars, strictVars, scanVars, chromeVars>>

\* The calls drawn: WAVE_API_KEY unset, empty, blank or set; the request
\* rejected or answered; the answer's HTTP status, its status.success
\* (absent, false with or without an error text, true) and its error and
\* contrast counts.
IsWaveCall(call) ==
  \E key \in {Undefined, Defined(<<>>), Defined(<<" ", " ">>), Defined(<<"k", "1">>)} :
  \E fetch \in {"rejects", "responds"} : \E ok \in BOOLEAN :
  \E success \in {"undefined", "false", "false: error text", "true"} :
  \E errors \in 0..1 : \E contrast \in 0..1 :
    call = [ key |-> key, fetch |-> fetch, ok |-> ok, success |-> success,
             errors |-> errors, contrast |-> contrast ]

\* The message of the error for a missing key
MissingKeyMessage == "WAVE_API_KEY environment variable is required for WAVE API scans."

\* C28: a call of runWaveScan issues at most one request and never a second
\* one; without a key, or with an empty or blank one, it throws the
\* missing-key error, which no other failure gives, before any request; on
\* a non-success HTTP answer it throws with that one request issued.
C28_AtMostOneRequestNoRetry ==
  waveOutcome.done =>
    LET keyMissing == ~waveCall.key.defined \/ \A i \in 1..Len(waveCall.key.text) :
                                                 waveCall.key.text[i] = " "
    IN  /\ Len(waveOutcome.requests) <= 1
        /\ keyMissing =>
             /\ waveOutcome.requests = <<>>
             /\ ~waveOutcome.returned
             /\ waveOutcome.error = MissingKeyMessage
        /\ ~keyMissing =>
             /\ Len(waveOutcome.requests) = 1
             /\ waveOutcome.requests[1].key = waveCall.key.text
             /\ waveOutcome.error # MissingKeyMessage
        /\ (~keyMissing /\ waveCall.fetch = "responds" /\ ~waveCall.ok) =>
             /\ ~waveOutcome.returned
             /\ waveOutcome.error = "WAVE API HTTP"
        /\ waveOutcome.returned =>
             (waveCall.ok /\ waveCall.success = "true"
              /\ waveCall.errors = 0 /\ waveCall.contrast = 0)

\* A key of blanks only: the call fails for the missing key and no request
\* is issued, although the API would have answered.
C28_Witness ==
  /\ waveOutcome.done
  /\ waveCall.key = Defined(<<" ", " ">>)
  /\ waveCall.fetch = "responds"
  /\ waveCall.ok
  /\ waveOutcome.requests = <<>>
  /\ waveOutcome.error = MissingKeyMessage

\* A set key and an answer that is not a success: one request, then the
\* HTTP error.
C28_WitnessHttpFailure ==
  /\ waveOutcome.done
  /\ waveCall.key = Defined(<<"k", "1">>)
  /\ ~waveCall.ok
  /\ waveCall.fetch = "responds"
  /\ Len(waveOutcome.requests) = 1
  /\ waveOutcome.error = "WAVE API HTTP"

----------------------------------------------------------------------------
(* Chrome lifecycle of the Lighthouse runners: runLighthouseScan           *)
(* (engines/lighthouse-engine.ts) and runLighthouseAccessibility           *)
(* (scripts/run-wcag-audit.ts)                                             *)

Step(name, ok) == [step |-> name, ok |-> ok]

\* What the awaited lighthouse(...) call leaves in the log
AuditStep(call) == Step("lighthouse", call.auditor # "throws")

\* runLighthouseScan: chrome.kill() is awaited inside the try block once
\* the auditor has returned, and once more, with its rejection swallowed,
\* in the catch block, which rethrows the error it caught.
RunLighthouseScan(call) ==
  LET Threw(log, error) ==
        [done |-> TRUE, launched |-> TRUE, returned |-> FALSE, error |-> error, log |-> log]
      launch   == <<Step("chromeLauncher.launch", TRUE)>>
      tryKill  == Step("chrome.kill", call.killOk[1])
  IN  IF ~call.launches
        THEN [ done |-> TRUE, launched |-> FALSE, returned |-> FALSE,
               error |-> "launch failed",
               log |-> <<Step("chromeLauncher.launch", FALSE)>> ]
      ELSE IF call.auditor = "throws"
        THEN Threw(launch \o <<AuditStep(call), Step("catch: chrome.kill", call.killOk[1])>>,
                   "auditor error")
      ELSE IF ~call.killOk[1]
        THEN Threw(launch \o <<AuditStep(call), tryKill,
                               Step("catch: chrome.kill", call.killOk[2])>>,
                   "kill failed")
      ELSE IF call.auditor = "no report"
        THEN Threw(launch \o <<AuditStep(call), tryKill,
                               Step("catch: chrome.kill", call.killOk[2])>>,
                   "Lighthouse did not return a result.")
      ELSE [ done |-> TRUE, launched |-> TRUE, returned |-> TRUE, error |-> "",
             log |-> launch \o <<AuditStep(call), tryKill,
                                 Step("normalizeLhrToResult", TRUE)>> ]

\* runLighthouseAccessibility: one chrome.kill() in the finally block, its
\* rejection swallowed
RunLighthouseAccessibility(call) ==
  LET launch == <<Step("chromeLauncher.launch", TRUE)>>
      kill   == Step("finally: chrome.kill", call.killOk[1])
  IN  IF ~call.launches
        THEN [ done |-> TRUE, launched |-> FALSE, returned |-> FALSE,
               error |-> "launch failed",
               log |-> <<Step("chromeLauncher.launch", FALSE)>> ]
      ELSE [ done |-> TRUE, launched |-> TRUE,
             returned |-> call.auditor = "report",
             error |-> CASE call.auditor = "throws" -> "auditor error"
                         [] call.auditor = "no report" -> "Lighthouse did not return a result."
                         [] OTHER -> "",
             log |-> launch \o <<AuditStep(call), kill>> ]

\* One call of either runner
LighthouseCall ==
  /\ pc = "chrome:called"
  /\ pc' = "chrome:done"
  /\ lhOutcome' = IF lhCall.fn = "runLighthouseScan" THEN RunLighthouseScan(lhCall)
                  ELSE RunLighthouseAccessibility(lhCall)
  /\ UNCHANGED lhCall
  /\ UNCHANGED <<axeVars, treeVars, lhVars, waveVars, refVars, gateVars, batchVars,
            cardVars, strictVars, scanVars, waveApiVars>>

\* The calls drawn: either runner on a URL; Chrome launches or not; the
\* auditor returns a report, returns none, or throws; each of the two
\* possible kill attempts resolves or rejects.
IsLighthouseCall(call) ==
  \E fn \in {"runLighthouseScan", "runLighthouseAccessibility"} :
  \E url \in UrlPool : \E launches \in BOOLEAN :
  \E auditor \in {"report", "no report", "throws"} :
  \E first \in BOOLEAN : \E second \in BOOLEAN :
    call = [ fn |-> fn, url |-> url, launches |-> launches, auditor |-> auditor,
             killOk |-> <<first, second>> ]

\* The kill attempts of the finished call, by their position in its log
KillAttempts ==
  {k \in 1..Len(lhOutcome.log) :
     lhOutcome.log[k].step \in {"chrome.kill", "catch: chrome.kill", "finally: chrome.kill"}}

\* Every launched Chrome was asked to terminate before the call completed
\* (this much holds on every path of both runners).
KillAttemptedOnEveryPath ==
  (lhOutcome.done /\ lhOutcome.launched) =>
    /\ KillAttempts # {}
    /\ \A k \in KillAttempts : \E l \in 1..(k - 1) :
         lhOutcome.log[l] = Step("chromeLauncher.launch", TRUE)

\* C30, as the claim states it: on every path of runLighthouseScan the
\* launched Chrome has been asked to terminate when the call completes,
\* and what the caller receives is the report or the original failure (the
\* auditor's error, or the missing report), never the failure of a kill.
C30_KillAttemptedAndOriginalFailureKept ==
  (lhOutcome.done /\ lhCall.fn = "runLighthouseScan" /\ lhOutcome.launched) =>
    /\ KillAttempts # {}
    /\ lhOutcome.error # "kill failed"
    /\ lhCall.auditor = "throws" =>
         ~lhOutcome.returned /\ lhOutcome.error = "auditor error"
    /\ lhCall.auditor = "no report" =>
         ~lhOutcome.returned /\ lhOutcome.error = "Lighthouse did not return a result."

\* The auditor returns its report, the kill awaited in the try block
\* rejects: the catch block asks again and the caller receives the kill's
\* failure instead of the report.
C30_Witness ==
  /\ lhOutcome.done
  /\ lhCall.fn = "runLighthouseScan"
  /\ lhCall.auditor = "report"
  /\ ~lhCall.killOk[1]
  /\ Cardinality(KillAttempts) = 2
  /\ ~lhOutcome.returned
  /\ lhOutcome.error = "kill failed"

----------------------------------------------------------------------------
(* Values of the variables a specification does not use                    *)

\* Every variable outside the parts a specification uses keeps the value
\* it has while that part of the suite has not run.
IdleExcept(used) ==
  /\ IF "axe" \in used THEN TRUE
     ELSE /\ axeData = [violations |-> <<>>, incomplete |-> <<>>]
          /\ axeReports = [all |-> NoReport, actionable |-> NoReport]
  /\ IF "tree" \in used THEN TRUE
     ELSE /\ axNodes = <<>>
          /\ treeResult = [scanned |-> FALSE]
  /\ IF "lh" \in used THEN TRUE
     ELSE /\ lhRun = [present |-> FALSE]
          /\ lhResult = [normalized |-> FALSE]
  /\ IF "wave" \in used THEN TRUE
     ELSE /\ regexLastIndex = 0
          /\ parseCalls = 0
          /\ captureHtml = <<>>
          /\ captureFindings = <<>>
          /\ jiraOptions = [actionableOnly |-> FALSE]
          /\ jiraIssues = <<>>
  /\ IF "ref" \in used THEN TRUE
     ELSE /\ refQuery = [description |-> <<>>, category |-> <<>>]
          /\ refResult = [returned |-> FALSE]
  /\ IF "gate" \in used THEN TRUE
     ELSE /\ gateRun = [entry |-> "none", scanRejects |-> FALSE]
          /\ gateExit = [exited |-> FALSE]
  /\ IF "batch" \in used THEN TRUE
     ELSE /\ batchArgs = [urls |-> <<>>, engine |-> "both", backend |-> "cdp"]
          /\ urls = <<>>
          /\ urlIndex = 0
          /\ table = <<>>
          /\ scanLog = <<>>
          /\ batchExit = [exited |-> FALSE]
  /\ IF "cards" \in used THEN TRUE
     ELSE /\ cardInput = [engine |-> "none"]
          /\ cards = [rendered |-> FALSE]
  /\ IF "strict" \in used THEN TRUE
     ELSE /\ strictLhr = [audits |-> <<>>]
          /\ strictReport = [built |-> FALSE]
  /\ IF "scan" \in used THEN TRUE
     ELSE /\ axeScanInput = [revision |-> "none"]
          /\ axeScanResult = [done |-> FALSE]
  /\ IF "waveapi" \in used THEN TRUE
     ELSE /\ waveCall = [key |-> Undefined]
          /\ waveOutcome = [done |-> FALSE]
  /\ IF "chrome" \in used THEN TRUE
     ELSE /\ lhCall = [fn |-> "none"]
          /\ lhOutcome = [done |-> FALSE]

InitAxe ==
  /\ pc = "axe:scanned"
  /\ IsAxeResults(axeData)
  /\ axeReports = [all |-> NoReport, actionable |-> NoReport]
  /\ IdleExcept({"axe"})

NextAxe == AxeReportStep

SpecAxe == InitAxe /\ [][NextAxe]_vars

InitTree ==
  /\ pc = "tree:page"
  /\ IsAXNodeList(axNodes)
  /\ treeResult = [scanned |-> FALSE]
  /\ IdleExcept({"tree"})

NextTree == RunA11yTreeScan

SpecTree == InitTree /\ [][NextTree]_vars

InitLh ==
  /\ pc = "lh:audited"
  /\ IsLighthouseRun(lhRun)
  /\ lhResult = [normalized |-> FALSE]
  /\ IdleExcept({"lh"})

NextLh == NormalizeLighthouseRun

SpecLh == InitLh /\ [][NextLh]_vars

InitWaveJira ==
  /\ pc = "jira:start"
  /\ regexLastIndex = 0
  /\ parseCalls = 0
  /\ IsCapture(captureHtml)
  /\ captureFindings = <<>>
  /\ jiraOptions \in {[actionableOnly |-> FALSE], [actionableOnly |-> TRUE]}
  /\ jiraIssues = <<>>
  /\ IdleExcept({"wave"})

NextWaveJira == WaveCaptureToJira

SpecWaveJira == InitWaveJira /\ [][NextWaveJira]_vars

InitWaveParse ==
  /\ pc = "parse:idle"
  /\ IdleExcept({})

NextWaveParse == ParseCapture

SpecWaveParse == InitWaveParse /\ [][NextWaveParse]_vars

InitWcagRef ==
  /\ pc = "ref:asked"
  /\ IsRefQuery(refQuery)
  /\ refResult = [returned |-> FALSE]
  /\ IdleExcept({"ref"})

NextWcagRef == LookupWcagRef

SpecWcagRef == InitWcagRef /\ [][NextWcagRef]_vars

InitGate ==
  /\ pc = "gate:start"
  /\ gateRun \in [entry : {"lighthouse-gate", "axe-test"}, scanRejects : BOOLEAN]
  /\ gateExit = [exited |-> FALSE]
  /\ IF gateRun.entry = "lighthouse-gate"
       THEN /\ lhRun = [present |-> FALSE] \/ IsLighthouseRun(lhRun)
            /\ lhResult = [normalized |-> FALSE]
            /\ IdleExcept({"gate", "lh"})
       ELSE /\ IsAxeResults(axeData)
            /\ axeReports = [all |-> NoReport, actionable |-> NoReport]
            /\ IdleExcept({"gate", "axe"})

NextGate == RunLighthouseGate \/ RunAxeGateTest

SpecGate == InitGate /\ [][NextGate]_vars

InitBatch ==
  /\ pc = "batch:start"
  /\ \E n \in 0..MaxUrls : \E given \in [1..n -> UrlPool] :
     \E engine \in {"axe", "wave", "tree", "lighthouse", "both"} : \E backend \in {"cdp", "no-cdp"} :
       batchArgs = [urls |-> given, engine |-> engine, backend |-> backend]
  /\ urls = <<>>
  /\ urlIndex = 0
  /\ table = <<>>
  /\ scanLog = <<>>
  /\ batchExit = [exited |-> FALSE]
  /\ IdleExcept({"batch"})

NextBatch == StartBatch \/ ProcessUrl \/ PrintTable

SpecBatch == InitBatch /\ [][NextBatch]_vars

InitCards ==
  /\ pc = "cards:scanned"
  /\ IsCardInput(cardInput)
  /\ cards = [rendered |-> FALSE]
  /\ IdleExcept({"cards"})

NextCards == GenerateReportCard \/ BuildJiraReportCard

SpecCards == InitCards /\ [][NextCards]_vars

InitStrict ==
  /\ pc = "strict:audited"
  /\ IsStrictLhr(strictLhr)
  /\ strictReport = [built |-> FALSE]
  /\ IdleExcept({"strict"})

NextStrict == RunWcagAudit

SpecStrict == InitStrict /\ [][NextStrict]_vars

InitScan ==
  /\ pc = "scan:opened"
  /\ IsAxeScanInput(axeScanInput)
  /\ axeScanResult = [done |-> FALSE]
  /\ IdleExcept({"scan"})

NextScan == ScanPage

SpecScan == InitScan /\ [][NextScan]_vars

InitWaveApi ==
  /\ pc = "waveapi:called"
  /\ IsWaveCall(waveCall)
  /\ waveOutcome = [done |-> FALSE]
  /\ IdleExcept({"waveapi"})

NextWaveApi == WaveScan

SpecWaveApi == InitWaveApi /\ [][NextWaveApi]_vars

InitSeverity ==
  /\ pc = "axe:scanned"
  /\ IsAxeSeverityResults(axeData)
  /\ axeReports = [all |-> NoReport, actionable |-> NoReport]
  /\ IdleExcept({"axe"})

NextSeverity == AxeReportStep

SpecSeverity == InitSeverity /\ [][NextSeverity]_vars

InitChrome ==
  /\ pc = "chrome:called"
  /\ IsLighthouseCall(lhCall)
  /\ lhOutcome = [done |-> FALSE]
  /\ IdleExcept({"chrome"})

NextChrome == LighthouseCall

SpecChrome == InitChrome /\ [][NextChrome]_vars

=============================================================================
